---- MODULE Spec2Model ----
(***************************************************************************)
(* Model of the Microsoft-Rewards activity engine:                         *)
(*   - Workers.robustTryClickSelector / tryOnce (the click executor),      *)
(*   - Workers.hideOverlappingOverlays / restoreHiddenOverlays,            *)
(*   - Workers.buildSelectorsForActivity,                                  *)
(*   - Workers.solveActivities (the dispatcher) and its three entry points *)
(*     doDailySet, doPunchCard, doMorePromotions.                          *)
(* Strings are sequences of one-character strings so that toLowerCase,     *)
(* includes and the quote escaping are computed, not assumed.              *)
(***************************************************************************)
EXTENDS Integers, Sequences, FiniteSets, TLC

(***************************************************************************)
(* Bounds of the model                                                     *)
(***************************************************************************)
MaxActs == 2
MaxCards == 2
MaxAttemptsBound == 3
NOverlays == 1
NPageElements == 2
MaxQuestions == 3
MaxAnswers == 2
MaxTitleLen == 2
MaxEntries == 2
MaxTabs == 5

\* Accounts of one runTasks call
MaxAccounts == 2

\* Largest retryMobileSearchAmount of the configuration
MaxRetryAmount == 2

\* Re-invocations of Mobile followed for one account
MaxMobileRuns == 4

\* Largest configured value of dailyCheckInRetries
MaxCheckInRetries == 5

\* Largest number of offers in userData.promotions
MaxOffers == 2

(***************************************************************************)
(* Strings                                                                 *)
(***************************************************************************)
UpperAlpha == <<"A","B","C","D","E","F","G","H","I","J","K","L","M","N","O","P","Q","R","S","T","U","V","W","X","Y","Z">>
LowerAlpha == <<"a","b","c","d","e","f","g","h","i","j","k","l","m","n","o","p","q","r","s","t","u","v","w","x","y","z">>

LowerChar(c) ==
    IF \E i \in 1..26 : UpperAlpha[i] = c
    THEN LowerAlpha[CHOOSE i \in 1..26 : UpperAlpha[i] = c]
    ELSE c

\* String.prototype.toLowerCase
ToLowerCase(s) == [i \in 1..Len(s) |-> LowerChar(s[i])]

\* String.prototype.includes (case-sensitive substring search)
Includes(s, sub) ==
    \E i \in 0..(Len(s) - Len(sub)) : \A j \in 1..Len(sub) : s[i + j] = sub[j]

RECURSIVE EscapeQuotes(_)
\* s.replace(/"/g, '\\"')
EscapeQuotes(s) ==
    IF s = <<>> THEN <<>>
    ELSE (IF Head(s) = "\"" THEN <<"\\", "\"">> ELSE <<Head(s)>>) \o EscapeQuotes(Tail(s))

PollMarker == <<"p","o","l","l","s","c","e","n","a","r","i","o","i","d">>
ExploreMarker == <<"e","x","p","l","o","r","e","o","n","b","i","n","g">>
FormMarker == <<"f","o","r","m","=","d","s","e","t","q","u">>

\* Undefined / absent string field
NoStr == <<>>

UrlPollMixed == <<"q","?","P","o","l","l","S","c","e","n","a","r","i","o","I","d","=","1">>
UrlPlain == <<"q","?","x","=","1">>
UrlFormLower == <<"q","?","f","o","r","m","=","d","s","e","t","q","u">>
UrlFormUpper == <<"q","?","F","O","R","M","=","D","S","E","T","Q","U">>
NameExploreMixed == <<"E","x","p","l","o","r","e","O","n","B","i","n","g","1">>
NamePlain == <<"n","1">>
OfferPlain == <<"o","1">>
OfferQuoted == <<"o","\"","1">>

(***************************************************************************)
(* ActivityRecord (PromotionalItem | MorePromotion): the records the       *)
(* dashboard data may contain.  The state holds indices into this table:   *)
(* no code of the engine writes a field of a record.                       *)
(***************************************************************************)
Act(offerId, name, ptype, ppm, url, complete, locked) ==
    [offerId |-> offerId, name |-> name, promotionType |-> ptype,
     pointProgressMax |-> ppm, destinationUrl |-> url, complete |-> complete,
     exclusiveLockedFeatureStatus |-> locked]

ActivityPool == <<
    Act(OfferPlain,  NamePlain,        "quiz",        10, UrlPollMixed, FALSE, "unlocked"),
    Act(NoStr,       NoStr,            "quiz",        10, UrlPlain,     FALSE, "unlocked"),
    Act(NoStr,       NoStr,            "quiz",        50, UrlPlain,     FALSE, "unlocked"),
    Act(NoStr,       NoStr,            "quiz",        30, NoStr,        FALSE, "unlocked"),
    Act(NoStr,       NameExploreMixed, "urlreward",   10, UrlPlain,     FALSE, "unlocked"),
    Act(NoStr,       NoStr,            "urlreward",   10, UrlFormLower, FALSE, "unlocked"),
    Act(OfferQuoted, NoStr,            "urlreward",   10, UrlFormUpper, FALSE, "unlocked"),
    Act(NoStr,       NoStr,            "welcometour", 10, UrlPlain,     FALSE, "unlocked"),
    Act(NoStr,       NoStr,            "quiz",        10, UrlPlain,     TRUE,  "unlocked"),
    Act(OfferPlain,  NamePlain,        "urlreward",    0, UrlPlain,     FALSE, "unlocked"),
    Act(NoStr,       NoStr,            "urlreward",   10, UrlPlain,     FALSE, "locked")
>>

ActIds == 1..Len(ActivityPool)

(***************************************************************************)
(* State                                                                   *)
(***************************************************************************)
VARIABLES
    \* --- click executor (robustTryClickSelector) ---
    world,          \* what is known of the page the call runs against
    cpc,            \* position inside robustTryClickSelector
    cSel,           \* selector argument
    cMax,           \* maxAttempts argument
    attempt,        \* loop variable of the retry loop
    handle,         \* what page.$(sel) gave in the current attempt
    hid,            \* value returned by hideOverlappingOverlays in this attempt (-1: not called)
    armed,          \* popup / navigation listeners registered in this attempt
    clickedOk,      \* local clickedOk of tryOnce
    issued,         \* click operations issued in this attempt, with their real outcome
    restoreCalls,   \* calls of restoreHiddenOverlays in this attempt
    restoreFailed,  \* a restoreHiddenOverlays of this call ended in its catch (returned 0)
    pauses,         \* retry pauses taken in this call
    tres,           \* value returned by the current tryOnce
    result,         \* value returned by robustTryClickSelector
    dom,            \* overlay elements of the page: restoration tag and inline display
    \* --- dashboard data and entry points (doDailySet, doPunchCard, doMorePromotions) ---
    data,           \* DashboardData: dailySetPromotions of today, punchCards, morePromotions, promotionalItem
    entry,          \* the entry point that was called
    pc,             \* position of the entry point / of solveActivities
    cards,          \* punchCardsUncompleted (indices into data.punchCards)
    cardIdx,        \* loop position of doPunchCard
    \* --- dispatcher (solveActivities) ---
    activities,     \* the activities argument
    punchArg,       \* a punchCard argument was passed
    idx,            \* loop position of solveActivities
    selectors,      \* candidate selectors of the current activity
    candidateCount, \* local candidateCount
    tried,          \* selectors handed to robustTryClickSelector for the current activity, with maxAttempts
    clickedResult,  \* local clickedResult
    invoked,        \* completion protocols invoked for the current activity
    cooled,         \* the 2000 ms cooldown was taken for the current activity
    started,        \* number of loop iterations of solveActivities begun
    lastOutcome,    \* how the latest finished iteration ended
    tabs,           \* number of open tabs of the browser context
    guardClosed,    \* the tab guard of solveActivities has closed a tab
    \* --- overlay manager called on its own (suppress, then restore) ---
    oDom,           \* elements of the page: restoration tag, inline display, stylesheet display
    oBefore,        \* the page as it was before hideOverlappingOverlays
    oPc,            \* "start", "suppressed" or "restored"
    \* --- Quiz protocol (doQuiz) ---
    qVariant,       \* which of the two doQuiz sources runs: "Quiz.ts" or "ABC.ts"
    qpc,            \* position inside doQuiz
    qPage,          \* the quiz page: rewardsQuizRenderInfo and the answer options
    qRemaining,     \* local questionsRemaining
    qQuestion,      \* loop variable question
    qI,             \* loop variable i of the option loop
    qCorrectOption, \* local correctOption
    qAnswers,       \* local answers, the part not clicked yet (option numbers)
    qAsked,         \* the question the page showed when the current loop iteration began
    qClicks,        \* answer clicks of the current loop iteration that went through
    qHist,          \* what went wrong so far in this call
    qClosed,        \* page.close() was called
    qData,          \* local quizData: the option count it holds and the question it was fetched for
    \* --- ABC protocol (doABC) ---
    abcpc,          \* position inside doABC
    abcI,           \* loop variable i
    abcDollar,      \* local $: the page as loadInCheerio last read it
    abcRuns,        \* executions of the loop body in this call
    abcLog,         \* the outcome doABC logged
    abcHist,        \* what happened so far in this call
    \* --- SearchOnBing.getSearchQuery ---
    sqpc,           \* position inside getSearchQuery
    sqTitle,        \* the title argument
    sqSource,       \* how the query table is obtained and what it holds
    sqKey,          \* normalizeString(title) as the lookup computed it
    sqResult,       \* the value returned
    \* --- Quiz.clickWithRetries ---
    cwpc,           \* position inside clickWithRetries
    cwSelector,     \* the selector argument
    cwMaxAttempts,  \* the maxAttempts argument
    cwAttempt,      \* loop variable attempt
    cwCandidates,   \* local candidates
    cwCandidate,    \* position of the loop over candidates
    cwClicked,      \* selectors whose element a click of this call went to
    cwResult,       \* the value returned
    cwDom,          \* overlay elements of the quiz page: restoration tag and inline display
    \* --- the watchers of one tryOnce, on a clock ---
    wpc,            \* position inside tryOnce, from the watchers on
    wNow,           \* milliseconds since the watchers were created
    wPopupPromise,  \* popupPromise: "none", "pending", "page" or "null"
    wNavPromise,    \* navPromise: "none", "pending", "nav" or "null"
    wEffect,        \* what the click did when it went through
    wClickedAt,     \* when the click went through (-1: not yet)
    wResult,        \* the value returned by tryOnce
    \* --- exit paths of doPoll and doSearchOnBing ---
    xProtocol,      \* the completion protocol that is followed to its exit
    xpc,            \* position inside doPoll / doSearchOnBing
    xStep,          \* the awaited operation of the try block that is next
    xCloseRequests, \* calls of page.close() in this call
    xLog,           \* the outcome the protocol logged
    \* --- MicrosoftRewardsBot: runTasks, Desktop, Mobile ---
    tParallel,      \* config.parallel
    tRetryAmount,   \* config.searchSettings.retryMobileSearchAmount
    tpc,            \* position inside runTasks
    tQueue,         \* accounts the current pass has still to run
    tAccount,       \* the account that is being run (0: none)
    doLater,        \* the doLater flag of every account
    tRuns,          \* how often runTasks has run each account
    failedAccounts, \* local failedAccounts of runTasks
    tFlaggedAfterFirst, \* the accounts whose doLater flag was set when the first pass ended
    tRerunFlagged,  \* a re-run of the retry pass was started with doLater still set
    mobileRetryAttempts, \* this.mobileRetryAttempts of the bot instance that runs runTasks
    instanceAttempts,    \* mobileRetryAttempts of the instance the current Mobile runs on
    dState,         \* Desktop for the current account: "todo", "returned", "threw"
    mState,         \* Mobile for the current account: "todo", "running", "returned", "threw"
    mReinvocations, \* how often Mobile has re-invoked itself for the current account
    mCompleteSeen,  \* a Mobile run of the current account found the mobile searches complete
    mRerunAfterComplete, \* Mobile re-invoked itself after such a run
    mStartAttempts, \* value of the retry counter when Mobile was first entered for the current account
    tLeak,          \* Desktop or Mobile was left with a browser it created still open
    \* DailyCheckIn.doDailyCheckIn
    ciRetries,          \* config.dailyCheckInRetries: [set, v], set = FALSE when absent
    cipc,               \* "idle", "start", "loop", "backoff", "done", "thrown"
    ciAttempt,          \* the local variable attempt
    ciClaimed,          \* the local variable claimedPoint
    ciTrace,            \* history: the requests and waits of the retry loop, in order
    \* BrowserFunc.getAppEarnablePoints
    apc,                \* "idle", "start", "request", "retry", "count", "catch", "done", "thrown"
    aPromotions,        \* userData.promotions of the response that was received
    aRequests,          \* history: user-data requests issued
    aFirstError,        \* history: the error the first request was rejected with
    aRelaxed,           \* history: a request was issued with rejectUnauthorized: false
    aFailed,            \* history: something failed (a rejection, an exception, a missing response)
    aResult,            \* the returned object
    \* BrowserFunc.goHome
    gpc,                \* "idle", "start", "loop", "returned", "thrown"
    gLocation,          \* where the page is
    gIteration,         \* the loop variable iteration
    gChecks,            \* history: the location of the page at each check iteration
    gSuspended          \* history: #suspendedAccountHeader was seen

clickVars == <<world, cpc, cSel, cMax, attempt, handle, hid, armed,
               clickedOk, issued, restoreCalls, restoreFailed, pauses, tres, result, dom>>

dispVars == <<data, entry, pc, cards, cardIdx, activities, punchArg, idx, selectors,
              candidateCount, tried, clickedResult, invoked, cooled, started, lastOutcome>>

ovVars == <<oDom, oBefore, oPc>>

quizVars == <<qVariant, qpc, qPage, qRemaining, qQuestion, qI, qCorrectOption,
              qAnswers, qAsked, qClicks, qHist, qClosed, qData>>

\* What the click executor and what the dispatcher leave alone
abcVars == <<abcpc, abcI, abcDollar, abcRuns, abcLog, abcHist>>

sqVars == <<sqpc, sqTitle, sqSource, sqKey, sqResult>>

cwVars == <<cwpc, cwSelector, cwMaxAttempts, cwAttempt, cwCandidates, cwCandidate,
            cwClicked, cwResult, cwDom>>

watchVars == <<wpc, wNow, wPopupPromise, wNavPromise, wEffect, wClickedAt, wResult>>

exitVars == <<xProtocol, xpc, xStep, xCloseRequests, xLog>>

botVars == <<tParallel, tRetryAmount, tpc, tQueue, tAccount, doLater, tRuns, failedAccounts,
             tFlaggedAfterFirst, tRerunFlagged, mobileRetryAttempts, instanceAttempts, dState, mState,
             mReinvocations, mCompleteSeen, mRerunAfterComplete, mStartAttempts, tLeak>>

ciVars == <<ciRetries, cipc, ciAttempt, ciClaimed, ciTrace>>

appVars == <<apc, aPromotions, aRequests, aFirstError, aRelaxed, aFailed, aResult>>

goVars == <<gpc, gLocation, gIteration, gChecks, gSuspended>>

tabVars == <<tabs, guardClosed>>

\* What no step of the dispatcher touches; the tab count is left alone by
\* most of them
otherVars == <<clickVars, ovVars, quizVars, abcVars, sqVars, cwVars, watchVars, exitVars, botVars, ciVars, appVars, goVars>>

nonClickVars == <<dispVars, ovVars, quizVars, abcVars, sqVars, cwVars, watchVars, exitVars, botVars, ciVars, appVars, goVars, tabVars>>
nonDispVars == <<otherVars, tabVars>>
nonOvVars == <<clickVars, dispVars, quizVars, abcVars, sqVars, cwVars, watchVars, exitVars, botVars, ciVars, appVars, goVars, tabVars>>
nonQuizVars == <<clickVars, ovVars, abcVars, sqVars, cwVars, watchVars, exitVars, botVars, ciVars, appVars, goVars, tabVars>>
nonAbcVars == <<clickVars, dispVars, ovVars, quizVars, sqVars, cwVars, watchVars, exitVars, botVars, ciVars, appVars, goVars, tabVars>>
nonSqVars == <<clickVars, dispVars, ovVars, quizVars, abcVars, cwVars, watchVars, exitVars, botVars, ciVars, appVars, goVars, tabVars>>
nonCwVars == <<clickVars, dispVars, ovVars, quizVars, abcVars, sqVars, watchVars, exitVars, botVars, ciVars, appVars, goVars, tabVars>>
nonWatchVars == <<clickVars, dispVars, ovVars, quizVars, abcVars, sqVars, cwVars, exitVars, botVars, ciVars, appVars, goVars, tabVars>>
nonExitVars == <<clickVars, dispVars, ovVars, quizVars, abcVars, sqVars, cwVars, watchVars, botVars, ciVars, appVars, goVars, tabVars>>
nonBotVars == <<clickVars, dispVars, ovVars, quizVars, abcVars, sqVars, cwVars, watchVars, exitVars, ciVars, appVars, goVars, tabVars>>
nonCiVars == <<clickVars, dispVars, ovVars, quizVars, abcVars, sqVars, cwVars, watchVars, exitVars, botVars, appVars, goVars, tabVars>>
nonAppVars == <<clickVars, dispVars, ovVars, quizVars, abcVars, sqVars, cwVars, watchVars, exitVars, botVars, ciVars, goVars, tabVars>>
nonGoVars == <<clickVars, dispVars, ovVars, quizVars, abcVars, sqVars, cwVars, watchVars, exitVars, botVars, ciVars, appVars, tabVars>>

vars == <<clickVars, dispVars, ovVars, quizVars, abcVars, sqVars, cwVars, watchVars, exitVars, botVars, ciVars, appVars, goVars, tabVars>>

Elements == 1..NOverlays

NoResult == [success |-> FALSE, reason |-> "none", popup |-> FALSE]
Fail(r) == [success |-> FALSE, reason |-> r, popup |-> FALSE]
Success(p) == [success |-> TRUE, reason |-> "none", popup |-> p]


\* A locator string, by its template and the identifier put into it
Sel(kind, id) == <<kind, id>>

ScopedFallback == Sel("scoped", NoStr)      \* '.pointLink:not(.contentContainer .pointLink)'
UnscopedFallback == Sel("unscoped", NoStr)  \* '.pointLink'

(***************************************************************************)
(* OverlayManager                                                          *)
(***************************************************************************)
\* Computed display of an element: its inline display when it has one,
\* the display its stylesheet gives it otherwise
ComputedDisplay(el) == IF el.display # "" THEN el.display ELSE el.sheet

\* Elements that hideOverlappingOverlays hides, given the set ov of elements
\* that are positioned, have a non-zero box and overlap the target: an
\* element whose computed display is none is skipped.
HideTargets(d, ov) == {e \in ov : ComputedDisplay(d[e]) # "none"}

\* DOM after the in-page function of hideOverlappingOverlays
HideOverlappingOverlays(d, ov) ==
    [e \in DOMAIN d |->
        IF e \in HideTargets(d, ov)
        THEN [d[e] EXCEPT !.tagged = TRUE, !.display = "none"]
        ELSE d[e]]

\* Variant of RestoreHiddenOverlays that removes the tag and leaves the
\* forced display on the element
RestoreHiddenOverlays_TagOnly(d) ==
    [e \in DOMAIN d |->
        IF d[e].tagged
        THEN [d[e] EXCEPT !.tagged = FALSE]
        ELSE d[e]]

\* DOM after the in-page function of restoreHiddenOverlays:
\* removeAttribute('data-qa-hidden-temp'), style.removeProperty('display')
RestoreHiddenOverlays(d) ==
    [e \in DOMAIN d |->
        IF d[e].tagged
        THEN [d[e] EXCEPT !.tagged = FALSE, !.display = ""]
        ELSE d[e]]

(***************************************************************************)
(* ClickExecutor: robustTryClickSelector and its inner tryOnce             *)
(***************************************************************************)
\* Variant of Retriable that also retries a locator that was not found
Retriable_NotFound(reason) ==
    reason \in {"click-failed", "visibility-check-error", "css-hidden", "not-found"}

\* Variant of Retriable that also retries an element with an empty box
Retriable_ZeroBox(reason) ==
    reason \in {"click-failed", "visibility-check-error", "css-hidden", "zero-bounding-box"}

\* Reasons after which the retry loop starts another attempt
Retriable(reason) == reason \in {"click-failed", "visibility-check-error", "css-hidden"}

\* The page, as far as a call's precondition fixes it.  "any": nothing is
\* known, every browser call may go any way at every attempt.
\* "neverResolves": page.$(selector) never finds an element.
\* "hiddenUntilSuppressed": the element is present with a non-zero box and
\* hidden by style; the first hideOverlappingOverlays call hides at least one
\* element, and a click goes through.
Worlds == {"any", "neverResolves", "hiddenUntilSuppressed"}

ResolveAllowed(h, box, hiddenStyle) ==
    CASE world = "neverResolves" -> h = "null"
      [] world = "hiddenUntilSuppressed" -> h = "found" /\ box = "ok" /\ hiddenStyle
      [] OTHER -> TRUE

HideAllowed(evalThrows, ov) ==
    (world = "hiddenUntilSuppressed" /\ attempt = 1) =>
        (~evalThrows /\ HideTargets(dom, ov) # {})

LocatorClickAllowed(r) == (world = "hiddenUntilSuppressed") => (r \in {"ok", "fail"})

ScriptClickAllowed(r) == (world = "hiddenUntilSuppressed") => (r = "true")

\* Locals of tryOnce at the start of an attempt
FreshAttempt ==
    /\ handle' = "none"
    /\ hid' = -1
    /\ armed' = FALSE
    /\ clickedOk' = FALSE
    /\ issued' = <<>>
    /\ restoreCalls' = 0
    /\ tres' = NoResult

\* Entry of robustTryClickSelector(page, selector, maxAttempts)
BeginClick(sel, maxAttempts) ==
    /\ cSel' = sel
    /\ cMax' = maxAttempts
    /\ attempt' = 1
    /\ pauses' = 0
    /\ restoreFailed' = FALSE
    /\ FreshAttempt
    /\ IF 1 <= maxAttempts
       THEN cpc' = "tryOnce" /\ result' = NoResult
       ELSE cpc' = "returned" /\ result' = Fail("max-retries")
    /\ UNCHANGED dom

\* tryOnce returns r
ReturnFromTryOnce(r) ==
    /\ tres' = r
    /\ cpc' = "attemptDone"

\* tryOnce, from its start to the style check: waitForSelector (failure
\* ignored), page.$, scrollIntoViewIfNeeded, boundingBox, computed style.
TryOnceResolve ==
    /\ UNCHANGED nonClickVars
    /\ cpc = "tryOnce"
    /\ \E h \in {"null", "found", "throws"} :
       \E box \in {"zero", "ok", "throws"} :
       \E hiddenStyle \in BOOLEAN :
          /\ ResolveAllowed(h, box, hiddenStyle)
          /\ (h # "found") => (box = "ok" /\ hiddenStyle = FALSE)
          /\ (box # "ok") => (hiddenStyle = FALSE)
          /\ handle' = h
          /\ IF h = "null" THEN ReturnFromTryOnce(Fail("not-found"))
             ELSE IF h = "throws" \/ box = "throws" THEN cpc' = "arm" /\ UNCHANGED tres
             ELSE IF box = "zero" THEN ReturnFromTryOnce(Fail("zero-bounding-box"))
             ELSE IF hiddenStyle THEN cpc' = "hide" /\ UNCHANGED tres
             ELSE cpc' = "arm" /\ UNCHANGED tres
    /\ UNCHANGED <<world, cSel, cMax, attempt, hid, armed, clickedOk, issued, restoreCalls,
                   restoreFailed, pauses, result, dom>>

\* Variant of NothingHidden that gives up whatever was hidden
NothingHidden_Always(n) == TRUE

\* if (hid === 0) return css-hidden
NothingHidden(n) == n = 0

\* tryOnce: the element is hidden by style: hideOverlappingOverlays, then
\* css-hidden when nothing was hidden.  A failing page.evaluate gives 0.
TryOnceHide ==
    /\ UNCHANGED nonClickVars
    /\ cpc = "hide"
    /\ \E evalThrows \in BOOLEAN :
       \E ov \in SUBSET Elements :
          /\ HideAllowed(evalThrows, ov)
          /\ evalThrows => ov = {}
          /\ dom' = IF evalThrows THEN dom ELSE HideOverlappingOverlays(dom, ov)
          /\ hid' = IF evalThrows THEN 0 ELSE Cardinality(HideTargets(dom, ov))
          /\ IF NothingHidden(hid')
             THEN ReturnFromTryOnce(Fail("css-hidden"))
             ELSE cpc' = "arm" /\ UNCHANGED tres
    /\ UNCHANGED <<world, cSel, cMax, attempt, handle, armed, clickedOk,
                   issued, restoreCalls, restoreFailed, pauses, result>>

\* tryOnce: popup and navigation watchers are created before the cascade
TryOnceArm ==
    /\ UNCHANGED nonClickVars
    /\ cpc = "arm"
    /\ armed' = TRUE
    /\ cpc' = "locatorClick"
    /\ UNCHANGED <<world, cSel, cMax, attempt, handle, hid, clickedOk,
                   issued, restoreCalls, restoreFailed, pauses, tres, result, dom>>

ClickFrame == <<world, cSel, cMax, attempt, handle, hid, armed,
                restoreCalls, restoreFailed, pauses, tres, result, dom>>

\* Strategy 1: locator.click({timeout}).  "throws": page.locator or the
\* scroll throws synchronously and the outer try swallows it.
LocatorClick ==
    /\ UNCHANGED nonClickVars
    /\ cpc = "locatorClick"
    /\ \E r \in {"ok", "fail", "throws"} :
          /\ LocatorClickAllowed(r)
          /\ issued' = IF r = "throws" THEN issued
                       ELSE Append(issued, [strategy |-> "locator", ok |-> (r = "ok")])
          /\ clickedOk' = (r = "ok")
          /\ cpc' = CASE r = "ok" -> "restore"
                      [] r = "fail" -> "scriptClick"
                      [] OTHER -> "forcedClick"
    /\ UNCHANGED ClickFrame

\* Strategy 2: page.evaluate(el.click()); a rejected evaluate counts as false
ScriptClick ==
    /\ UNCHANGED nonClickVars
    /\ cpc = "scriptClick"
    /\ \E r \in {"true", "false", "throws"} :
          /\ ScriptClickAllowed(r)
          /\ issued' = Append(issued, [strategy |-> "script", ok |-> (r = "true")])
          /\ clickedOk' = (r = "true")
          /\ cpc' = IF r = "true" THEN "restore" ELSE "mouseClick"
    /\ UNCHANGED ClickFrame

\* clickedOk after the bounding-box mouse click was issued with outcome ok
ClickedOkAfterMouse(ok) == TRUE

\* Strategy 3: page.mouse.click at the centre of the bounding box
MouseClick ==
    /\ UNCHANGED nonClickVars
    /\ cpc = "mouseClick"
    /\ \E r \in {"no-handle", "no-box", "ok", "fail", "throws"} :
          IF r \in {"ok", "fail"}
          THEN /\ issued' = Append(issued, [strategy |-> "mouse", ok |-> (r = "ok")])
               /\ clickedOk' = ClickedOkAfterMouse(r = "ok")
               /\ cpc' = IF clickedOk' THEN "restore" ELSE "forcedClick"
          ELSE /\ UNCHANGED <<issued, clickedOk>>
               /\ cpc' = "forcedClick"
    /\ UNCHANGED ClickFrame

\* Strategy 4: locator.click({force: true}), only when clickedOk is still false
ForcedClick ==
    /\ UNCHANGED nonClickVars
    /\ cpc = "forcedClick"
    /\ \E r \in {"ok", "fail"} :
          /\ issued' = Append(issued, [strategy |-> "forced", ok |-> (r = "ok")])
          /\ clickedOk' = (r = "ok")
          /\ cpc' = "restore"
    /\ UNCHANGED ClickFrame

\* Variant of TryOnceRestore that restores only after a click that went through
TryOnceRestore_OnlyOnSuccess ==
    /\ UNCHANGED nonClickVars
    /\ cpc = "restore"
    /\ restoreCalls' = IF clickedOk THEN restoreCalls + 1 ELSE restoreCalls
    /\ \E evalThrows \in BOOLEAN :
          /\ dom' = IF evalThrows \/ ~clickedOk THEN dom ELSE RestoreHiddenOverlays(dom)
          /\ restoreFailed' = (restoreFailed \/ (evalThrows /\ clickedOk))
    /\ IF ~clickedOk
       THEN ReturnFromTryOnce(Fail("click-failed"))
       ELSE cpc' = "detect" /\ UNCHANGED tres
    /\ UNCHANGED <<world, cSel, cMax, attempt, handle, hid, armed,
                   clickedOk, issued, pauses, result>>

\* tryOnce: restoreHiddenOverlays, then the outcome.  A failing
\* page.evaluate inside restoreHiddenOverlays restores nothing.
TryOnceRestore ==
    /\ UNCHANGED nonClickVars
    /\ cpc = "restore"
    /\ restoreCalls' = restoreCalls + 1
    /\ \E evalThrows \in BOOLEAN :
          /\ dom' = IF evalThrows THEN dom ELSE RestoreHiddenOverlays(dom)
          /\ restoreFailed' = (restoreFailed \/ evalThrows)
    /\ IF ~clickedOk
       THEN ReturnFromTryOnce(Fail("click-failed"))
       ELSE cpc' = "detect" /\ UNCHANGED tres
    /\ UNCHANGED <<world, cSel, cMax, attempt, handle, hid, armed,
                   clickedOk, issued, pauses, result>>

\* tryOnce: wait for the popup and the navigation watcher
TryOnceDetect ==
    /\ UNCHANGED nonClickVars
    /\ cpc = "detect"
    /\ \E popup \in BOOLEAN : ReturnFromTryOnce(Success(popup))
    /\ UNCHANGED <<world, cSel, cMax, attempt, handle, hid, armed,
                   clickedOk, issued, restoreCalls, restoreFailed, pauses, result, dom>>

\* The retry loop of robustTryClickSelector, after tryOnce returned
RetryLoop ==
    /\ UNCHANGED nonClickVars
    /\ cpc = "attemptDone"
    /\ IF tres.success
       THEN /\ result' = tres
            /\ cpc' = "returned"
            /\ UNCHANGED <<attempt, handle, hid, armed, clickedOk, issued,
                           restoreCalls, pauses, tres>>
       ELSE IF Retriable(tres.reason)
       THEN /\ pauses' = pauses + 1
            /\ IF attempt + 1 <= cMax
               THEN /\ attempt' = attempt + 1
                    /\ cpc' = "tryOnce"
                    /\ FreshAttempt
                    /\ UNCHANGED result
               ELSE /\ result' = Fail("max-retries")
                    /\ cpc' = "returned"
                    /\ UNCHANGED <<attempt, handle, hid, armed, clickedOk,
                                   issued, restoreCalls, tres>>
       ELSE /\ result' = tres
            /\ cpc' = "returned"
            /\ UNCHANGED <<attempt, handle, hid, armed, clickedOk, issued,
                           restoreCalls, pauses, tres>>
    /\ UNCHANGED <<world, cSel, cMax, restoreFailed, dom>>

ClickStep ==
    \/ TryOnceResolve
    \/ TryOnceHide
    \/ TryOnceArm
    \/ LocatorClick
    \/ ScriptClick
    \/ MouseClick
    \/ ForcedClick
    \/ TryOnceRestore
    \/ TryOnceDetect
    \/ RetryLoop

ClickIdle ==
    /\ world = "any"
    /\ cpc = "idle"
    /\ cSel = UnscopedFallback
    /\ cMax = 0
    /\ attempt = 0
    /\ handle = "none"
    /\ hid = -1
    /\ armed = FALSE
    /\ clickedOk = FALSE
    /\ issued = <<>>
    /\ restoreCalls = 0
    /\ restoreFailed = FALSE
    /\ pauses = 0
    /\ tres = NoResult
    /\ result = NoResult

(***************************************************************************)
(* SelectorCandidateBuilder                                                *)
(***************************************************************************)
RECURSIVE Dedup(_)
\* Array.from(new Set(list)): first occurrences, in order
Dedup(list) ==
    IF list = <<>> THEN <<>>
    ELSE LET rest == Dedup(SelectSeq(Tail(list), LAMBDA x : x # Head(list)))
         IN <<Head(list)>> \o rest

InSeq(x, list) == \E i \in 1..Len(list) : list[i] = x

RECURSIVE PushNew(_, _)
\* for (const s of heuristic) if (!candidates.includes(s)) candidates.push(s)
PushNew(cands, more) ==
    IF more = <<>> THEN cands
    ELSE PushNew(IF InSeq(Head(more), cands) THEN cands ELSE Append(cands, Head(more)), Tail(more))

DailyId == <<"d","a","i","l","y">>

\* What the in-page heuristic scan can give: a rejected page.evaluate, or the
\* list of exact-match locators of the matching ancestors
HeuristicResults ==
    {[throws |-> TRUE, list |-> <<>>]}
    \cup {[throws |-> FALSE, list |-> l] : l \in {<<>>, <<Sel("exact", DailyId)>>}}

\* Variant of BuildSelectorsForActivity that does not push the two generic
\* fallbacks
BuildSelectorsForActivity_NoFallback(a, heuristic) ==
    LET byOffer == IF a.offerId # NoStr
                   THEN <<Sel("prefix", a.offerId), Sel("prefix", EscapeQuotes(a.offerId))>>
                   ELSE <<>>
        byName == IF a.name # NoStr
                  THEN <<Sel("prefix", EscapeQuotes(a.name)), Sel("substr", EscapeQuotes(a.name))>>
                  ELSE <<>>
        scanned == IF heuristic.throws THEN byOffer \o byName
                   ELSE PushNew(byOffer \o byName, heuristic.list)
    IN Dedup(scanned)

\* buildSelectorsForActivity(page, activity, punchCard)
BuildSelectorsForActivity(a, heuristic) ==
    LET byOffer == IF a.offerId # NoStr
                   THEN <<Sel("prefix", a.offerId), Sel("prefix", EscapeQuotes(a.offerId))>>
                   ELSE <<>>
        byName == IF a.name # NoStr
                  THEN <<Sel("prefix", EscapeQuotes(a.name)), Sel("substr", EscapeQuotes(a.name))>>
                  ELSE <<>>
        scanned == IF heuristic.throws THEN byOffer \o byName
                   ELSE PushNew(byOffer \o byName, heuristic.list)
    IN Dedup(scanned \o <<ScopedFallback, UnscopedFallback>>)

\* What getPunchCardActivity can give: '' or a[href*="..."]
PunchCardSelectors == {Sel("href", OfferPlain)}

(***************************************************************************)
(* ActivityDispatcher: solveActivities                                     *)
(***************************************************************************)
MaxCandidatesToTry == 5
ClickAttempts == 3

\* The values robustTryClickSelector returns when maxAttempts >= 1
ClickOutcomes ==
    {Success(FALSE), Success(TRUE), Fail("not-found"), Fail("zero-bounding-box"), Fail("max-retries")}

\* Variant of ProtocolFor that looks for the poll marker without lower-casing
ProtocolFor_CaseSensitivePoll(a) ==
    CASE a.promotionType = "quiz" ->
            (CASE a.pointProgressMax = 10 ->
                    (IF Includes(a.destinationUrl, PollMarker) THEN "Poll" ELSE "ABC")
               [] a.pointProgressMax = 50 -> "ThisOrThat"
               [] OTHER -> "Quiz")
      [] a.promotionType = "urlreward" ->
            (IF Includes(ToLowerCase(a.name), ExploreMarker) \/ Includes(a.destinationUrl, FormMarker)
             THEN "SearchOnBing" ELSE "UrlReward")
      [] OTHER -> "none"

\* The switch on promotionType / pointProgressMax of solveActivities
ProtocolFor(a) ==
    CASE a.promotionType = "quiz" ->
            (CASE a.pointProgressMax = 10 ->
                    (IF Includes(ToLowerCase(a.destinationUrl), PollMarker) THEN "Poll" ELSE "ABC")
               [] a.pointProgressMax = 50 -> "ThisOrThat"
               [] OTHER -> "Quiz")
      [] a.promotionType = "urlreward" ->
            (IF Includes(ToLowerCase(a.name), ExploreMarker) \/ Includes(a.destinationUrl, FormMarker)
             THEN "SearchOnBing" ELSE "UrlReward")
      [] OTHER -> "none"

CurrentActivity == ActivityPool[activities[idx]]

\* The loop body of the current activity is left: by its end, by continue,
\* or through the catch
\* pages.length > 3
TabCap == 3

\* The guard without its close
AfterTabGuard_NoClose(n) == n

\* if (pages.length > 3) { await activityPage.close() ... }: one tab is closed
AfterTabGuard(n) == IF n > TabCap THEN n - 1 ELSE n

\* A click that went through can open one new tab (a popup is one); a click
\* that failed opens none
TabsAfterClick(n, res) ==
    IF ~res.success \/ n >= MaxTabs THEN {n}
    ELSE IF res.popup THEN {n + 1}
    ELSE {n, n + 1}

\* A completion protocol can close the page it was given or leave it open
TabsAfterProtocol(n) == {n, n - 1}

EndIteration(how, cooldown) ==
    /\ lastOutcome' = how
    /\ cooled' = cooldown
    /\ pc' = "iterEnd"
    /\ UNCHANGED idx

\* Variant of CatchInLoop that lets the exception leave solveActivities
CatchInLoop_Rethrow ==
    /\ lastOutcome' = "error"
    /\ cooled' = FALSE
    /\ pc' = "threw"
    /\ UNCHANGED idx

\* catch (error) { log } of the loop body
CatchInLoop == EndIteration("error", FALSE)

\* Entry of solveActivities(activityPage, activities, punchCard)
BeginSolve(list, punch) ==
    /\ activities' = list
    /\ punchArg' = punch
    /\ idx' = 1
    /\ started' = 0
    /\ lastOutcome' = "none"
    /\ selectors' = <<>>
    /\ candidateCount' = 0
    /\ tried' = <<>>
    /\ clickedResult' = NoResult
    /\ invoked' = <<>>
    /\ cooled' = FALSE
    /\ pc' = IF list = <<>> THEN "solved" ELSE "guard"

\* Loop body, start: getLatestTab, the open-tab guard, wait, goto(activityInitial)
IterGuard ==
    /\ pc = "guard"
    /\ started' = started + 1
    /\ \E throws \in BOOLEAN :
          /\ (tabs = 0) => throws
          /\ IF throws
             THEN /\ CatchInLoop
                  /\ tabs' \in {tabs, AfterTabGuard(tabs)}
             ELSE /\ pc' = "build"
                  /\ tabs' = AfterTabGuard(tabs)
                  /\ UNCHANGED <<idx, lastOutcome, cooled>>
    /\ guardClosed' = (guardClosed \/ tabs' < tabs)
    /\ UNCHANGED <<selectors, candidateCount, tried, clickedResult, invoked>>
    /\ UNCHANGED <<data, entry, cards, cardIdx, activities, punchArg>>
    /\ UNCHANGED otherVars

\* Loop body: the candidate list (getPunchCardActivity first, then the builder)
IterBuild ==
    /\ pc = "build"
    /\ \E derived \in (IF punchArg THEN PunchCardSelectors \cup {NoStr} ELSE {NoStr}) :
       \E heuristic \in HeuristicResults :
       \E throws \in BOOLEAN :
          /\ throws => (derived = NoStr /\ heuristic.throws)
          /\ IF throws
             THEN CatchInLoop /\ UNCHANGED selectors
             ELSE /\ selectors' = Dedup((IF derived # NoStr THEN <<derived>> ELSE <<>>)
                                        \o BuildSelectorsForActivity(CurrentActivity, heuristic))
                  /\ pc' = "click"
                  /\ UNCHANGED <<idx, lastOutcome, cooled>>
    /\ UNCHANGED <<data, entry, cards, cardIdx, activities, punchArg, candidateCount, tried,
                   clickedResult, invoked, started>>
    /\ UNCHANGED nonDispVars

\* Variant of MoreCandidates without the cap on the candidates tried
MoreCandidates_NoCap == candidateCount < Len(selectors)

\* The candidate loop goes on: for (const sel of selectors) { if (candidateCount >= max) break
MoreCandidates == candidateCount < Len(selectors) /\ candidateCount < MaxCandidatesToTry

\* One round of the candidate loop: robustTryClickSelector(activityPage, sel, 3, 10000)
IterClick ==
    /\ pc = "click"
    /\ MoreCandidates
    /\ \E res \in ClickOutcomes :
       \E throws \in BOOLEAN :
          /\ throws => res = Fail("not-found")
          /\ candidateCount' = candidateCount + 1
          /\ tried' = Append(tried, [sel |-> selectors[candidateCount + 1],
                                     maxAttempts |-> ClickAttempts])
          /\ IF throws THEN CatchInLoop /\ UNCHANGED <<clickedResult, tabs>>
             ELSE /\ clickedResult' = IF res.success THEN res ELSE clickedResult
                  /\ pc' = IF res.success THEN "clicked" ELSE "click"
                  /\ tabs' \in TabsAfterClick(tabs, res)
                  /\ UNCHANGED <<idx, lastOutcome, cooled>>
    /\ UNCHANGED guardClosed
    /\ UNCHANGED <<data, entry, cards, cardIdx, activities, punchArg, selectors, invoked,
                   started>>
    /\ UNCHANGED otherVars

\* Variant of SkipActivity that leaves the loop instead of continuing
SkipActivity_Break ==
    /\ lastOutcome' = "skipped"
    /\ cooled' = FALSE
    /\ pc' = "solved"
    /\ UNCHANGED idx

\* No candidate could be clicked: log, wait(500), continue
SkipActivity == EndIteration("skipped", FALSE)

IterSkip ==
    /\ pc = "click"
    /\ ~MoreCandidates
    /\ SkipActivity
    /\ UNCHANGED <<data, entry, cards, cardIdx, activities, punchArg, selectors, candidateCount,
                   tried, clickedResult, invoked, started>>
    /\ UNCHANGED nonDispVars

\* After a successful click: switch to the popup / latest tab, run the
\* completion protocol the switch selects, then the cooldown
IterRun ==
    /\ pc = "clicked"
    /\ \E e \in {"ok", "tab-throws", "protocol-throws"} :
          LET protocol == ProtocolFor(CurrentActivity) IN
          /\ (e = "protocol-throws") => protocol # "none"
          /\ IF e = "tab-throws" THEN CatchInLoop /\ UNCHANGED <<invoked, tabs>>
             ELSE IF protocol = "none"
             THEN EndIteration("unsupported", TRUE) /\ UNCHANGED <<invoked, tabs>>
             ELSE /\ invoked' = Append(invoked, protocol)
                  /\ tabs' \in TabsAfterProtocol(tabs)
                  /\ IF e = "protocol-throws" THEN CatchInLoop
                     ELSE EndIteration("completed", TRUE)
    /\ UNCHANGED guardClosed
    /\ UNCHANGED <<data, entry, cards, cardIdx, activities, punchArg, selectors, candidateCount,
                   tried, clickedResult, started>>
    /\ UNCHANGED otherVars

\* for (const activity of activities): the next activity, or the end of the
\* list; the block-scoped locals of the finished iteration are gone
IterNext ==
    /\ pc = "iterEnd"
    /\ idx' = idx + 1
    /\ pc' = IF idx + 1 <= Len(activities) THEN "guard" ELSE "solved"
    /\ selectors' = <<>>
    /\ candidateCount' = 0
    /\ tried' = <<>>
    /\ clickedResult' = NoResult
    /\ invoked' = <<>>
    /\ cooled' = FALSE
    /\ lastOutcome' = "none"
    /\ UNCHANGED <<data, entry, cards, cardIdx, activities, punchArg, started>>
    /\ UNCHANGED nonDispVars

(***************************************************************************)
(* Entry points                                                            *)
(***************************************************************************)
Filter(list, Keep(_)) == SelectSeq(list, Keep)

\* Variant of DailySetUncompleted that filters on the complete flag only
DailySetUncompleted_CompleteOnly(list) ==
    SelectSeq(list, LAMBDA i : ~ActivityPool[i].complete)

\* doDailySet: todayData?.filter(x => !x.complete && x.pointProgressMax > 0) ?? []
DailySetUncompleted(list) ==
    Filter(list, LAMBDA i : ~ActivityPool[i].complete /\ ActivityPool[i].pointProgressMax > 0)

\* doMorePromotions: the filter on complete, pointProgressMax and the lock status
MorePromotionsUncompleted(list) ==
    Filter(list, LAMBDA i : /\ ~ActivityPool[i].complete
                            /\ ActivityPool[i].pointProgressMax > 0
                            /\ ActivityPool[i].exclusiveLockedFeatureStatus # "locked")

\* doPunchCard: punchCard.childPromotions.filter(x => !x.complete)
PunchCardChildrenUncompleted(list) ==
    Filter(list, LAMBDA i : ~ActivityPool[i].complete)

\* doPunchCard: data.punchCards?.filter(x => x.parentPromotion && !x.parentPromotion.complete) ?? []
PunchCardsUncompleted(list) ==
    Filter([k \in 1..Len(list) |-> k], LAMBDA k : list[k].parent \in {"ok", "notitle"})

EntryFrame == <<selectors, candidateCount, tried, clickedResult, invoked, cooled, idx,
                activities, punchArg, started, lastOutcome>>

DoDailySet ==
    /\ pc = "idle"
    /\ entry' = "dailySet"
    /\ LET activitiesUncompleted == DailySetUncompleted(data.dailySet) IN
          IF activitiesUncompleted = <<>>
          THEN pc' = "returned" /\ UNCHANGED EntryFrame
          ELSE BeginSolve(activitiesUncompleted, FALSE)
    /\ UNCHANGED <<data, cards, cardIdx>>
    /\ UNCHANGED nonDispVars

\* doDailySet / doMorePromotions after solveActivities: getLatestTab, goHome
FinishEntry ==
    /\ pc = "solved"
    /\ entry \in {"dailySet", "morePromotions"}
    /\ \E goHomeThrows \in BOOLEAN : pc' = IF goHomeThrows THEN "threw" ELSE "returned"
    /\ UNCHANGED <<data, entry, cards, cardIdx>>
    /\ UNCHANGED EntryFrame
    /\ UNCHANGED nonDispVars

DoMorePromotions ==
    /\ pc = "idle"
    /\ entry' = "morePromotions"
    /\ data' = IF data.promotionalItem # 0
               THEN [data EXCEPT !.morePromotions = Append(@, data.promotionalItem)]
               ELSE data
    /\ LET activitiesUncompleted == MorePromotionsUncompleted(data'.morePromotions) IN
          IF activitiesUncompleted = <<>>
          THEN pc' = "returned" /\ UNCHANGED EntryFrame
          ELSE BeginSolve(activitiesUncompleted, FALSE)
    /\ UNCHANGED <<cards, cardIdx>>
    /\ UNCHANGED nonDispVars

DoPunchCard ==
    /\ pc = "idle"
    /\ entry' = "punchCard"
    /\ cards' = PunchCardsUncompleted(data.punchCards)
    /\ cardIdx' = 1
    /\ pc' = IF cards' = <<>> THEN "returned" ELSE "card"
    /\ UNCHANGED data
    /\ UNCHANGED EntryFrame
    /\ UNCHANGED nonDispVars

\* The loop of doPunchCard goes to the next card, or ends
NextCard ==
    /\ cardIdx' = cardIdx + 1
    /\ pc' = IF cardIdx + 1 <= Len(cards) THEN "card" ELSE "returned"

\* Loop body of doPunchCard up to the call of solveActivities
PunchCardStart ==
    /\ pc = "card"
    /\ LET punchCard == data.punchCards[cards[cardIdx]] IN
          IF punchCard.parent = "notitle"
          THEN NextCard /\ UNCHANGED EntryFrame
          ELSE \E throws \in BOOLEAN :
                  IF throws
                  THEN pc' = "threw" /\ UNCHANGED cardIdx /\ UNCHANGED EntryFrame
                  ELSE /\ BeginSolve(PunchCardChildrenUncompleted(punchCard.children), TRUE)
                       /\ UNCHANGED cardIdx
    /\ UNCHANGED <<data, entry, cards>>
    /\ UNCHANGED nonDispVars

\* Loop body of doPunchCard after solveActivities: close the tab or goHome
PunchCardFinish ==
    /\ pc = "solved"
    /\ entry = "punchCard"
    /\ \E throws \in BOOLEAN :
          IF throws THEN pc' = "threw" /\ UNCHANGED <<cardIdx, tabs>>
          ELSE NextCard /\ tabs' = AfterTabGuard(tabs)
    /\ UNCHANGED guardClosed
    /\ UNCHANGED <<data, entry, cards>>
    /\ UNCHANGED EntryFrame
    /\ UNCHANGED otherVars

(***************************************************************************)
(* Specification of the entry points and the dispatcher                    *)
(***************************************************************************)
SeqUpTo(S, n) == UNION {[1..k -> S] : k \in 0..n}

\* Records a punch card's childPromotions are drawn from
PunchIds == {9, 10}
\* Records data.morePromotions is drawn from
MoreIds == {1, 8, 9, 10, 11}
\* Records data.promotionalItem is drawn from (0: no promotional item)
PromoIds == {0, 1, 9}

CardSet ==
    {[parent |-> k, children |-> <<>>] : k \in {"none", "complete", "notitle"}}
    \cup {[parent |-> "ok", children |-> l] : l \in SeqUpTo(PunchIds, MaxActs)}

EmptyData == [dailySet |-> <<>>, punchCards |-> <<>>, morePromotions |-> <<>>, promotionalItem |-> 0]

DashboardDataSet ==
    {[EmptyData EXCEPT !.dailySet = l] : l \in SeqUpTo(ActIds, MaxActs)}
    \cup {[EmptyData EXCEPT !.morePromotions = l, !.promotionalItem = p] :
             l \in SeqUpTo(MoreIds, MaxActs), p \in PromoIds}
    \cup {[EmptyData EXCEPT !.punchCards = c] : c \in SeqUpTo(CardSet, MaxCards)}

DispIdle ==
    /\ entry = "none"
    /\ pc = "idle"
    /\ cards = <<>>
    /\ cardIdx = 0
    /\ activities = <<>>
    /\ punchArg = FALSE
    /\ idx = 0
    /\ selectors = <<>>
    /\ candidateCount = 0
    /\ tried = <<>>
    /\ clickedResult = NoResult
    /\ invoked = <<>>
    /\ cooled = FALSE
    /\ started = 0
    /\ lastOutcome = "none"

\* One tab, the dashboard
TabsIdle == tabs = 1 /\ guardClosed = FALSE

\* The overlay manager is not exercised on its own
OverlayIdle ==
    /\ oDom = <<>>
    /\ oBefore = <<>>
    /\ oPc = "idle"

NoQuestion == [correctAnswer |-> NoStr, dataOption |-> <<>>, iscorrectoption |-> <<>>]

NoHist == [aborted |-> FALSE, clickFailed |-> FALSE, refreshFailed |-> FALSE, wrongClick |-> FALSE]

\* No getQuizData result yet
NoQuizData == [numberOfOptions |-> 0, fetchedFor |-> -1]

\* Locals of doQuiz before the call
QuizLocalsFresh ==
    /\ qRemaining = 0
    /\ qQuestion = 0
    /\ qI = 0
    /\ qCorrectOption = NoStr
    /\ qAnswers = <<>>
    /\ qAsked = NoQuestion
    /\ qClicks = <<>>
    /\ qHist = NoHist
    /\ qClosed = FALSE
    /\ qData = NoQuizData

\* doQuiz is not exercised
QuizIdle ==
    /\ qVariant = "none"
    /\ qpc = "idle"
    /\ qPage = [maxQuestions |-> 0, CorrectlyAnsweredQuestionCount |-> 0, numberOfOptions |-> 0,
                question |-> NoQuestion, clicked |-> {}]
    /\ QuizLocalsFresh

NoSnapshot == [marker |-> FALSE, answers |-> <<>>]

NoABCHist == [noAnswers |-> FALSE, noId |-> FALSE, markerSeen |-> FALSE, threw |-> FALSE,
              closeRequested |-> FALSE]

\* doABC is not exercised
ABCIdle ==
    /\ abcpc = "idle"
    /\ abcI = 0
    /\ abcDollar = NoSnapshot
    /\ abcRuns = 0
    /\ abcLog = "none"
    /\ abcHist = NoABCHist

NoSource == [local |-> FALSE, fails |-> FALSE, table |-> <<>>]

\* getSearchQuery is not exercised
QueryIdle ==
    /\ sqpc = "idle"
    /\ sqTitle = <<>>
    /\ sqSource = NoSource
    /\ sqKey = <<>>
    /\ sqResult = <<>>

\* clickWithRetries of the Quiz class is not exercised
QuizClickIdle ==
    /\ cwpc = "idle"
    /\ cwSelector = ""
    /\ cwMaxAttempts = 0
    /\ cwAttempt = 0
    /\ cwCandidates = <<>>
    /\ cwCandidate = 0
    /\ cwClicked = <<>>
    /\ cwResult = NoResult
    /\ cwDom = <<>>

\* The watchers of tryOnce are not followed on the clock
WatchIdle ==
    /\ wpc = "idle"
    /\ wNow = 0
    /\ wPopupPromise = "none"
    /\ wNavPromise = "none"
    /\ wEffect = "none"
    /\ wClickedAt = -1
    /\ wResult = NoResult

\* No completion protocol is followed to its exit
ExitIdle ==
    /\ xProtocol = "none"
    /\ xpc = "idle"
    /\ xStep = 0
    /\ xCloseRequests = 0
    /\ xLog = "none"

\* runTasks is not exercised
BotIdle ==
    /\ tParallel = FALSE
    /\ tRetryAmount = 0
    /\ tpc = "idle"
    /\ tQueue = <<>>
    /\ tAccount = 0
    /\ doLater = <<>>
    /\ tRuns = <<>>
    /\ failedAccounts = <<>>
    /\ tFlaggedAfterFirst = {}
    /\ tRerunFlagged = FALSE
    /\ mobileRetryAttempts = 0
    /\ instanceAttempts = 0
    /\ dState = "todo"
    /\ mState = "todo"
    /\ mReinvocations = 0
    /\ mCompleteSeen = FALSE
    /\ mRerunAfterComplete = FALSE
    /\ mStartAttempts = 0
    /\ tLeak = FALSE

CheckInIdle ==
    /\ ciRetries = [set |-> FALSE, v |-> 0]
    /\ cipc = "idle"
    /\ ciAttempt = 0
    /\ ciClaimed = 0
    /\ ciTrace = <<>>

\* a JavaScript number: NaN or an integer
Num(n) == [nan |-> FALSE, v |-> n]

NaN == [nan |-> TRUE, v |-> 0]

\* no rejection recorded
NoError == [msg |-> "", code |-> "", cert |-> FALSE]

\* const points = { readToEarn: 0, checkIn: 0, totalEarnablePoints: 0 }, nothing returned yet
InitialPoints == [readToEarn |-> Num(0), checkIn |-> Num(0), totalEarnablePoints |-> Num(0),
             fetchError |-> FALSE]

AppIdle ==
    /\ apc = "idle"
    /\ aPromotions = <<>>
    /\ aRequests = 0
    /\ aFirstError = NoError
    /\ aRelaxed = FALSE
    /\ aFailed = FALSE
    /\ aResult = InitialPoints

GoHomeIdle ==
    /\ gpc = "idle"
    /\ gLocation = "blank"
    /\ gIteration = 0
    /\ gChecks = <<>>
    /\ gSuspended = FALSE

Init ==
    /\ ClickIdle
    /\ tabs \in {1, TabCap}
    /\ guardClosed = FALSE
    /\ ABCIdle
    /\ QueryIdle
    /\ QuizClickIdle
    /\ WatchIdle
    /\ GoHomeIdle
    /\ AppIdle
    /\ CheckInIdle
    /\ BotIdle
    /\ ExitIdle
    /\ dom = [e \in Elements |-> [tagged |-> FALSE, display |-> "", sheet |-> "block"]]
    /\ OverlayIdle
    /\ QuizIdle
    /\ data \in DashboardDataSet
    /\ DispIdle

Next ==
    \/ DoDailySet
    \/ DoMorePromotions
    \/ DoPunchCard
    \/ PunchCardStart
    \/ PunchCardFinish
    \/ FinishEntry
    \/ IterGuard
    \/ IterBuild
    \/ IterClick
    \/ IterSkip
    \/ IterRun
    \/ IterNext

Spec == Init /\ [][Next]_vars

(***************************************************************************)
(* Properties of the entry points and the dispatcher (checked under Spec)  *)
(***************************************************************************)
InLoopBody == pc \in {"build", "click", "clicked", "iterEnd"}
InSolve == pc \in {"guard", "build", "click", "clicked", "iterEnd"}

Handed(i) == ActivityPool[activities[i]]

\* C1 (as claimed): no entry point hands to solveActivities an activity whose
\* complete flag is true or whose pointProgressMax is <= 0, punch-card child
\* activities included.
C1_NoCompletedOrPointlessHanded ==
    \A i \in 1..Len(activities) : ~Handed(i).complete /\ Handed(i).pointProgressMax > 0

\* C1 (amended): no entry point hands to solveActivities an activity whose
\* complete flag is true; doDailySet and doMorePromotions hand none whose
\* pointProgressMax is <= 0 either.  doPunchCard filters the child activities
\* on the complete flag only.
C1_PreFiltering ==
    \A i \in 1..Len(activities) :
        /\ ~Handed(i).complete
        /\ (entry \in {"dailySet", "morePromotions"}) => Handed(i).pointProgressMax > 0

\* C1 witness: doDailySet dropped a completed record or a record without
\* points from today's set and the dispatcher is clicking what was left.
C1_Witness ==
    /\ entry = "dailySet"
    /\ pc = "click"
    /\ \E i \in 1..Len(data.dailySet) :
          ActivityPool[data.dailySet[i]].complete \/ ActivityPool[data.dailySet[i]].pointProgressMax <= 0
    /\ Len(activities) >= 1
    /\ Len(activities) < Len(data.dailySet)

\* Every activity of the list gets its iteration, in list order: iteration
\* number n is the one of activities[n], and the loop ends after the last.
AllAttemptedInOrder ==
    /\ InLoopBody => (started = idx /\ idx \in 1..Len(activities))
    /\ (pc = "guard") => (started = idx - 1 /\ idx \in 1..Len(activities))
    /\ (pc = "solved") => started = Len(activities)

\* A finished iteration is followed by the iteration of the next activity
LoopGoesOn ==
    (pc = "iterEnd") =>
        (idx' = idx + 1 /\ pc' = (IF idx < Len(activities) THEN "guard" ELSE "solved"))

\* C2: when every candidate locator of activity k failed to be clicked, the
\* activity is skipped (no completion protocol is invoked for it) and the
\* loop goes on with activity k+1; every activity of the list is attempted,
\* in list order.
C2_SkipContinues ==
    /\ [](/\ AllAttemptedInOrder
          /\ (pc = "iterEnd" /\ lastOutcome = "skipped") =>
                (invoked = <<>> /\ ~clickedResult.success /\ Len(tried) >= 1))
    /\ [][/\ (pc = "click" /\ ~MoreCandidates) =>
                (pc' = "iterEnd" /\ lastOutcome' = "skipped" /\ invoked' = <<>>)
          /\ LoopGoesOn]_vars

\* C2 witness: an activity that is not the last one was skipped
C2_Witness ==
    /\ pc = "iterEnd"
    /\ lastOutcome = "skipped"
    /\ idx < Len(activities)
    /\ \A i \in 1..Len(tried) : tried[i].sel = selectors[i]

\* C3: an exception raised while an activity is handled (tab guard, candidate
\* building, clicking, completion protocol) stays inside that iteration:
\* solveActivities never ends by throwing, and the later activities are
\* attempted.
C3_ExceptionContained ==
    /\ [](/\ AllAttemptedInOrder
          /\ (pc = "threw") => ~(lastOutcome = "error"))
    /\ [][/\ InSolve => pc' # "threw"
          /\ (InSolve /\ lastOutcome' = "error" /\ lastOutcome # "error") => pc' = "iterEnd"
          /\ LoopGoesOn]_vars

\* C3 witness: the completion protocol of an activity that is not the last
\* one threw
C3_Witness ==
    /\ pc = "iterEnd"
    /\ lastOutcome = "error"
    /\ invoked # <<>>
    /\ idx < Len(activities)

\* The marker occurs in s, letter case ignored
ContainsIgnoringCase(s, marker) ==
    \E i \in 0..(Len(s) - Len(marker)) :
        \A j \in 1..Len(marker) : LowerChar(s[i + j]) = LowerChar(marker[j])

\* The protocol table of claim C4
C4_Table(a) ==
    IF a.promotionType = "quiz"
    THEN IF a.pointProgressMax = 10
         THEN (IF ContainsIgnoringCase(a.destinationUrl, PollMarker) THEN "Poll" ELSE "ABC")
         ELSE IF a.pointProgressMax = 50 THEN "ThisOrThat"
         ELSE "Quiz"
    ELSE IF a.promotionType = "urlreward"
    THEN IF ContainsIgnoringCase(a.name, ExploreMarker)
            \/ (\E i \in 0..(Len(a.destinationUrl) - Len(FormMarker)) :
                   SubSeq(a.destinationUrl, i + 1, i + Len(FormMarker)) = FormMarker)
         THEN "SearchOnBing"
         ELSE "UrlReward"
    ELSE "none"

C5_CandidateOrder ==
    /\ [](InLoopBody =>
            /\ candidateCount = Len(tried)
            /\ Len(tried) <= 5
            /\ Len(tried) <= Len(selectors)
            /\ \A i \in 1..Len(tried) : tried[i].sel = selectors[i] /\ tried[i].maxAttempts = 3
            /\ \A i, j \in 1..Len(selectors) : (selectors[i] = selectors[j]) => i = j
            /\ \A i \in 1..Len(selectors) : (selectors[i][1] = "href") => (i = 1 /\ punchArg)
            /\ (selectors # <<>>) =>
                  \E h \in HeuristicResults :
                     LET built == BuildSelectorsForActivity(CurrentActivity, h) IN
                     selectors = built \/ (Len(selectors) >= 1 /\ Tail(selectors) = built)
            /\ clickedResult.success => (Len(tried) >= 1 /\ pc \in {"clicked", "iterEnd"}))
    /\ [][clickedResult.success => (tried' = tried \/ tried' = <<>>)]_vars

\* C5 witness: a punch-card activity with more than 5 candidates, the
\* punch-card locator first, was given up after 5 tries
C5_Witness ==
    /\ pc = "iterEnd"
    /\ lastOutcome = "skipped"
    /\ Len(selectors) > 5
    /\ Len(tried) = 5
    /\ selectors[1][1] = "href"

\* The list buildSelectorsForActivity returned for the current activity:
\* the candidates without the punch-card locator put in front of them
BuiltList ==
    IF selectors # <<>> /\ selectors[1][1] = "href" THEN Tail(selectors) ELSE selectors

\* Where a locator of the list comes from: 1 offerId, 2 name, 3 heuristic
\* scan, 4 scoped fallback, 5 unscoped fallback
Origin(a, sel) ==
    CASE sel = UnscopedFallback -> 5
      [] sel = ScopedFallback -> 4
      [] sel[1] = "exact" -> 3
      [] a.offerId # NoStr /\ sel \in {Sel("prefix", a.offerId), Sel("prefix", EscapeQuotes(a.offerId))} -> 1
      [] OTHER -> 2

\* C13: for every activity record (with or without offerId, with or without
\* name) and every result of the heuristic scan, a throwing scan included,
\* buildSelectorsForActivity returns a non-empty list without duplicates, in
\* the order offerId locators, name locators, heuristic locators, and
\* ending with the two generic fallbacks, the unscoped '.pointLink' last.
C13_BuilderOutput ==
    (pc \in {"click", "clicked"}) =>
        LET b == BuiltList
            a == CurrentActivity
        IN /\ Len(b) >= 2
           /\ b[Len(b)] = UnscopedFallback
           /\ b[Len(b) - 1] = ScopedFallback
           /\ \A i, j \in 1..Len(b) : (b[i] = b[j]) => i = j
           /\ \A i, j \in 1..Len(b) : (i < j) => Origin(a, b[i]) <= Origin(a, b[j])
           /\ (a.offerId # NoStr) <=> (\E i \in 1..Len(b) : Origin(a, b[i]) = 1)
           /\ (a.name # NoStr) <=> (\E i \in 1..Len(b) : Origin(a, b[i]) = 2)
           /\ (a.offerId # NoStr) => b[1] = Sel("prefix", a.offerId)
           /\ (a.name # NoStr) =>
                 /\ InSeq(Sel("prefix", EscapeQuotes(a.name)), b)
                 /\ InSeq(Sel("substr", EscapeQuotes(a.name)), b)

\* C13 witness: the list built for an activity with an offerId and a name,
\* with a locator found by the heuristic scan
C13_Witness ==
    /\ pc = "click"
    /\ ~punchArg
    /\ CurrentActivity.offerId # NoStr
    /\ CurrentActivity.name # NoStr
    /\ Len(selectors) = 6
    /\ selectors[4] = Sel("exact", DailyId)

(***************************************************************************)
(* Specification of the click executor alone: any page, any maxAttempts    *)
(***************************************************************************)
InitClick ==
    /\ ClickIdle
    /\ TabsIdle
    /\ ABCIdle
    /\ QueryIdle
    /\ QuizClickIdle
    /\ WatchIdle
    /\ GoHomeIdle
    /\ AppIdle
    /\ CheckInIdle
    /\ BotIdle
    /\ ExitIdle
    /\ data = EmptyData
    /\ DispIdle
    /\ dom \in [Elements -> [tagged : {FALSE}, display : {"", "block"}, sheet : {"block"}]]
    /\ OverlayIdle
    /\ QuizIdle

\* A caller invokes robustTryClickSelector(page, selector, maxAttempts)
CallClick ==
    /\ UNCHANGED nonClickVars
    /\ cpc = "idle"
    /\ \E m \in 1..MaxAttemptsBound : BeginClick(UnscopedFallback, m)
    /\ world' \in Worlds

NextClick ==
    \/ CallClick
    \/ ClickStep

SpecClick == InitClick /\ [][NextClick]_vars

(***************************************************************************)
(* Properties of the click executor (checked under SpecClick)              *)
(***************************************************************************)
Returned == cpc = "returned"
AttemptOver == cpc = "attemptDone"

\* C6: for a locator that never resolves to an element the call returns
\* {success:false, reason:'not-found'} after exactly one attempt, without a
\* click strategy, without a retry pause, the rest of the budget unused.
C6_NotFoundFailsFast ==
    (Returned /\ world = "neverResolves") =>
        /\ result = Fail("not-found")
        /\ attempt = 1
        /\ issued = <<>>
        /\ ~armed
        /\ pauses = 0

\* C6 witness: a call with a budget of 3 attempts on a locator that never
\* resolves has returned
C6_Witness ==
    /\ Returned
    /\ world = "neverResolves"
    /\ cMax = 3
    /\ handle = "null"

\* C7: at most maxAttempts attempts; another attempt only after click-failed
\* or css-hidden; any other failure is returned at once; max-retries exactly
\* when all maxAttempts attempts failed with a retriable reason.
C7_RetryPolicy ==
    /\ [](/\ (cpc # "idle") => (attempt <= cMax /\ pauses <= cMax)
          /\ Returned => result \in ClickOutcomes
          /\ Returned => ((result = Fail("max-retries")) <=> (pauses = cMax /\ attempt = cMax))
          /\ (Returned /\ result # Fail("max-retries")) => (result = tres /\ pauses = attempt - 1)
          /\ (Returned /\ tres.reason \in {"not-found", "zero-bounding-box"}) => result = tres)
    /\ [][(attempt >= 1 /\ attempt' = attempt + 1) =>
             (~tres.success /\ tres.reason \in {"click-failed", "css-hidden"} /\ attempt' <= cMax)]_vars

\* C7 witness: three attempts, all failed with a retriable reason
C7_Witness ==
    /\ Returned
    /\ cMax = 3
    /\ attempt = 3
    /\ pauses = 3
    /\ result = Fail("max-retries")

\* C8: the element is present but hidden by style, one hideOverlappingOverlays
\* call hides at least one overlapping element and the element can then be
\* clicked: a call with maxAttempts = 3 returns success within 3 attempts.
C8_HiddenThenSuppressed ==
    (Returned /\ world = "hiddenUntilSuppressed" /\ cMax = 3) =>
        (result.success /\ attempt <= 3)

\* C8 witness: such a call has returned, after hiding an overlay
C8_Witness ==
    /\ Returned
    /\ world = "hiddenUntilSuppressed"
    /\ cMax = 3
    /\ hid >= 1
    /\ result.success

CascadeOrder == <<"locator", "script", "mouse", "forced">>
Rank(strategy) == CHOOSE k \in 1..4 : CascadeOrder[k] = strategy

\* C9 (as claimed): the strategies are tried in cascade order, the first that
\* succeeds ends the cascade, and the attempt yields click-failed exactly
\* when no issued click completed successfully: success is never reported
\* for an attempt whose issued clicks all failed.
C9_ClickFailedIffNoClickSucceeded ==
    (AttemptOver /\ armed) =>
        /\ \A i, j \in 1..Len(issued) : (i < j) => Rank(issued[i].strategy) < Rank(issued[j].strategy)
        /\ \A i \in 1..(Len(issued) - 1) : ~issued[i].ok
        /\ (tres = Fail("click-failed")) <=> (\A i \in 1..Len(issued) : ~issued[i].ok)
        /\ tres.success => (\E i \in 1..Len(issued) : issued[i].ok)

Suppressed(e) == dom[e].tagged \/ dom[e].display = "none"
BetweenAttempts == cpc \in {"attemptDone", "tryOnce", "returned"}

PageElements == 1..NPageElements

\* An element is displayed when its computed display is not none
Visible(el) == ComputedDisplay(el) # "none"

InitOverlay ==
    /\ ClickIdle
    /\ TabsIdle
    /\ ABCIdle
    /\ QueryIdle
    /\ QuizClickIdle
    /\ WatchIdle
    /\ GoHomeIdle
    /\ AppIdle
    /\ CheckInIdle
    /\ BotIdle
    /\ ExitIdle
    /\ dom = [e \in Elements |-> [tagged |-> FALSE, display |-> "", sheet |-> "block"]]
    /\ data = EmptyData
    /\ DispIdle
    /\ oDom \in [PageElements -> [tagged : {FALSE}, display : {"", "block", "none"},
                                    sheet : {"block", "none"}]]
    /\ oBefore = oDom
    /\ oPc = "start"
    /\ QuizIdle

\* hideOverlappingOverlays(page, selector); ov: the positioned elements with
\* a non-zero box that overlap the target.  A rejected page.evaluate gives 0.
OverlaySuppress ==
    /\ oPc = "start"
    /\ \E evalThrows \in BOOLEAN :
       \E ov \in SUBSET PageElements :
          /\ evalThrows => ov = {}
          /\ oDom' = IF evalThrows THEN oDom ELSE HideOverlappingOverlays(oDom, ov)
    /\ oBefore' = oDom
    /\ oPc' = "suppressed"
    /\ UNCHANGED nonOvVars

\* restoreHiddenOverlays(page).  A rejected page.evaluate restores nothing.
OverlayRestore ==
    /\ oPc = "suppressed"
    /\ \E evalThrows \in BOOLEAN :
          /\ oDom' = IF evalThrows THEN oDom ELSE RestoreHiddenOverlays(oDom)
          /\ oPc' = IF evalThrows THEN "restoreFailed" ELSE "restored"
    /\ UNCHANGED oBefore
    /\ UNCHANGED nonOvVars

\* The next suppress starts from the page as restore left it
OverlayAgain ==
    /\ oPc \in {"restored", "restoreFailed"}
    /\ oPc' = "start"
    /\ oBefore' = oDom
    /\ UNCHANGED oDom
    /\ UNCHANGED nonOvVars

NextOverlay ==
    \/ OverlaySuppress
    \/ OverlayRestore
    \/ OverlayAgain

SpecOverlay == InitOverlay /\ [][NextOverlay]_vars

\* C12 (as claimed): after hideOverlappingOverlays followed by
\* restoreHiddenOverlays every element is displayed exactly when it was
\* displayed before the suppress, and has the inline display it had before,
\* also when it had an inline display value of its own.
C12_SuppressRestoreRoundTrip ==
    (oPc = "restored") =>
        \A e \in PageElements :
            /\ Visible(oDom[e]) = Visible(oBefore[e])
            /\ oDom[e].display = oBefore[e].display

(***************************************************************************)
(* Quiz protocol: doQuiz, in its two sources.  Quiz.ts clicks with         *)
(* page.click; the Quiz class of ABC.ts clicks with clickWithRetries and   *)
(* recomputes questionsRemaining after each question.                      *)
(***************************************************************************)
QuizVariants == {"Quiz.ts", "ABC.ts"}

\* data-option tokens
Tokens == {<<"A">>, <<"B">>, <<"C">>}

AttrTrueMixed == <<"T","r","u","e">>
AttrTrueLower == <<"t","r","u","e">>
AttrFalse == <<"F","a","l","s","e">>

\* iscorrectoption of the 8 options of a multi-answer question: options
\* 0, 3 and 7 flagged (one in lower case), option 1 without the attribute
ThreeFlagged ==
    [i \in 1..8 |-> CASE i \in {1, 8} -> AttrTrueMixed
                      [] i = 4 -> AttrTrueLower
                      [] i = 2 -> NoStr
                      [] OTHER -> AttrFalse]

\* Option 2 flagged only
OneFlagged == [i \in 1..8 |-> IF i = 3 THEN AttrTrueMixed ELSE AttrFalse]

\* The questions a quiz with n options can show
Questions(n) ==
    CASE n = 2 ->
            {[correctAnswer |-> c, dataOption |-> <<a, b>>, iscorrectoption |-> <<>>] :
                <<a, b, c>> \in {t \in Tokens \X Tokens \X Tokens : t[1] # t[2] /\ t[3] \in {t[1], t[2]}}}
      [] n = 8 ->
            {[correctAnswer |-> NoStr, dataOption |-> <<>>, iscorrectoption |-> l] :
                l \in {ThreeFlagged, OneFlagged}}
      [] OTHER -> {[correctAnswer |-> NoStr, dataOption |-> << <<"A">> >>, iscorrectoption |-> <<>>]}

\* The quiz pages a click on a quiz activity can open
QuizPages ==
    {[maxQuestions |-> m, CorrectlyAnsweredQuestionCount |-> c, numberOfOptions |-> n,
      question |-> q, clicked |-> {}] :
        <<m, c, n, q>> \in {t \in (1..MaxQuestions) \X (0..MaxQuestions) \X {2, 5, 8}
                                  \X (Questions(2) \cup Questions(5) \cup Questions(8) \cup {NoQuestion}) :
                               /\ t[2] <= t[1]
                               /\ IF t[2] = t[1] THEN t[4] = NoQuestion ELSE t[4] \in Questions(t[3])}}

\* The options of question q the page marks as correct (numbered from 0)
PageFlagged(q) ==
    {i \in 0..(Len(q.iscorrectoption) - 1) :
        q.iscorrectoption[i + 1] \in {AttrTrueMixed, AttrTrueLower}}

\* The page after a click on answer option opt went through; next: the
\* question shown after the current one
AfterAnswerClick(page, opt, next) ==
    LET count == page.CorrectlyAnsweredQuestionCount
        Advance(c) == [page EXCEPT !.CorrectlyAnsweredQuestionCount = c,
                                   !.question = IF c >= page.maxQuestions THEN NoQuestion ELSE next,
                                   !.clicked = {}]
    IN IF page.numberOfOptions = 8
       THEN IF PageFlagged(page.question) \subseteq (page.clicked \cup {opt})
            THEN Advance(count + 1)
            ELSE [page EXCEPT !.clicked = page.clicked \cup {opt}]
       ELSE IF page.question.dataOption[opt + 1] = page.question.correctAnswer
            THEN Advance(count + 1)
            ELSE Advance(count)

\* Variant of IsFlagged that compares the attribute as written
IsFlagged_CaseSensitive(answerAttribute) ==
    answerAttribute # NoStr /\ answerAttribute = AttrTrueLower

\* answerAttribute && answerAttribute.toLowerCase() === 'true'
IsFlagged(answerAttribute) ==
    answerAttribute # NoStr /\ ToLowerCase(answerAttribute) = AttrTrueLower

\* Variant of StopsOnRefreshFailure that goes on after a missing refresh
StopsOnRefreshFailure_Never(refreshSuccess) == FALSE

\* if (!refreshSuccess) { page.close(); log; return }
StopsOnRefreshFailure(refreshSuccess) == ~refreshSuccess

RECURSIVE CollectAnswers(_, _, _)
\* The first loop of the multi-answer branch: the numbers of the options i..n-1
\* whose iscorrectoption attribute reads true
CollectAnswers(q, i, n) ==
    IF i >= n THEN <<>>
    ELSE (IF i + 1 <= Len(q.iscorrectoption) /\ IsFlagged(q.iscorrectoption[i + 1])
          THEN <<i>> ELSE <<>>) \o CollectAnswers(q, i + 1, n)

\* page.close() and return: from a failed refresh, from the catch of doQuiz,
\* or from a failed start
QuizCloseAndReturn ==
    /\ qClosed' = TRUE
    /\ qpc' = "returned"

\* The loop body of the question loop is over
QuizIterationEnd ==
    IF qVariant = "Quiz.ts"
    THEN qQuestion' = qQuestion + 1 /\ qpc' = "loop"
    ELSE qpc' = "recalc" /\ UNCHANGED qQuestion

\* solveActivities calls doQuiz on the page the click opened
QuizCall ==
    /\ pc = "clicked"
    /\ ProtocolFor(CurrentActivity) = "Quiz"
    /\ invoked' = Append(invoked, "Quiz")
    /\ pc' = "protocol"
    /\ qpc' = "start"
    /\ qPage' \in QuizPages
    /\ qRemaining' = 0
    /\ qQuestion' = 0
    /\ qI' = 0
    /\ qCorrectOption' = NoStr
    /\ qAnswers' = <<>>
    /\ qAsked' = NoQuestion
    /\ qClicks' = <<>>
    /\ qHist' = NoHist
    /\ qClosed' = FALSE
    /\ qData' = NoQuizData
    /\ UNCHANGED qVariant
    /\ UNCHANGED <<data, entry, cards, cardIdx, activities, punchArg, idx, selectors,
                   candidateCount, tried, clickedResult, cooled, started, lastOutcome>>
    /\ UNCHANGED nonQuizVars

\* getQuizData(page), called while the question loop is at `question`
GetQuizData(page, question) ==
    [numberOfOptions |-> page.numberOfOptions, fetchedFor |-> question]

\* The Quiz class of ABC.ts calls getQuizData at the head of every iteration;
\* Quiz.ts keeps the quizData it has
RefetchesAtLoopHead(variant) == variant = "ABC.ts"

\* doQuiz up to the question loop: #rqStartQuiz, getQuizData, questionsRemaining
QuizStart ==
    /\ qpc = "start"
    /\ \E quizNotStarted \in BOOLEAN :
       \E startClicked \in BOOLEAN :
       \E dataOk \in BOOLEAN :
          /\ (~quizNotStarted) => startClicked
          /\ (~startClicked) => dataOk
          /\ IF ~startClicked \/ ~dataOk
             THEN /\ QuizCloseAndReturn
                  /\ qHist' = [qHist EXCEPT !.aborted = TRUE]
                  /\ UNCHANGED <<qRemaining, qData>>
             ELSE /\ qData' = GetQuizData(qPage, 0)
                  /\ qRemaining' = qPage.maxQuestions - qPage.CorrectlyAnsweredQuestionCount
                  /\ qpc' = "loop"
                  /\ UNCHANGED <<qHist, qClosed>>
    /\ UNCHANGED <<qVariant, qPage, qQuestion, qI, qCorrectOption, qAnswers, qAsked, qClicks>>
    /\ UNCHANGED dispVars
    /\ UNCHANGED nonQuizVars

\* Head of the question loop and the branch on numberOfOptions
QuizLoop ==
    /\ qpc = "loop"
    /\ IF qQuestion < qRemaining
       THEN \E dataOk \in BOOLEAN :
            LET atHead == RefetchesAtLoopHead(qVariant)
                n == IF atHead THEN qPage.numberOfOptions ELSE qData.numberOfOptions
                fetches == atHead \/ n \in {2, 3, 4}
            IN /\ (~fetches) => dataOk
               /\ qAsked' = qPage.question
               /\ qClicks' = <<>>
               /\ qData' = IF fetches /\ dataOk THEN GetQuizData(qPage, qQuestion) ELSE qData
               /\ IF ~dataOk
                  THEN /\ QuizCloseAndReturn
                       /\ qHist' = [qHist EXCEPT !.aborted = TRUE]
                       /\ UNCHANGED <<qQuestion, qI, qCorrectOption, qAnswers>>
                  ELSE IF n = 8
                  THEN IF qVariant = "Quiz.ts" /\ Len(qPage.question.iscorrectoption) < n
                       THEN /\ QuizCloseAndReturn
                            /\ qHist' = [qHist EXCEPT !.aborted = TRUE]
                            /\ UNCHANGED <<qQuestion, qI, qCorrectOption, qAnswers>>
                       ELSE /\ qAnswers' = CollectAnswers(qPage.question, 0, n)
                            /\ qpc' = "multi"
                            /\ UNCHANGED <<qQuestion, qI, qCorrectOption, qHist, qClosed>>
                  ELSE IF n \in {2, 3, 4}
                  THEN /\ qCorrectOption' = qPage.question.correctAnswer
                       /\ qI' = 0
                       /\ qpc' = "single"
                       /\ UNCHANGED <<qQuestion, qAnswers, qHist, qClosed>>
                  ELSE /\ IF qVariant = "Quiz.ts"
                          THEN qQuestion' = qQuestion + 1 /\ qpc' = "loop"
                          ELSE qpc' = "finish" /\ UNCHANGED qQuestion
                       /\ UNCHANGED <<qI, qCorrectOption, qAnswers, qHist, qClosed>>
       ELSE /\ qpc' = "finish"
            /\ UNCHANGED <<qQuestion, qI, qCorrectOption, qAnswers, qAsked, qClicks, qHist, qClosed,
                           qData>>
    /\ UNCHANGED <<qVariant, qPage, qRemaining>>
    /\ UNCHANGED dispVars
    /\ UNCHANGED nonQuizVars

\* Multi-answer branch, second loop: click the next collected answer and wait
\* for the refresh
QuizMulti ==
    /\ qpc = "multi"
    /\ IF qAnswers = <<>>
       THEN /\ QuizIterationEnd
            /\ UNCHANGED <<qPage, qAnswers, qClicks, qHist, qClosed>>
       ELSE \E clicked \in BOOLEAN :
            \E refreshSuccess \in BOOLEAN :
            \E next \in Questions(qPage.numberOfOptions) :
            LET opt == Head(qAnswers) IN
               /\ (~clicked) => (refreshSuccess /\ next = qPage.question)
               /\ IF ~clicked
                  THEN /\ qHist' = [qHist EXCEPT !.clickFailed = TRUE]
                       /\ UNCHANGED <<qPage, qClicks, qQuestion>>
                       /\ IF qVariant = "Quiz.ts"
                          THEN QuizCloseAndReturn /\ UNCHANGED qAnswers
                          ELSE qAnswers' = Tail(qAnswers) /\ UNCHANGED <<qpc, qClosed>>
                  ELSE /\ qPage' = AfterAnswerClick(qPage, opt, next)
                       /\ qClicks' = Append(qClicks, [opt |-> opt,
                                                      hit |-> opt \in PageFlagged(qPage.question),
                                                      refreshWaited |-> TRUE])
                       /\ UNCHANGED qQuestion
                       /\ IF StopsOnRefreshFailure(refreshSuccess)
                          THEN /\ QuizCloseAndReturn
                               /\ qHist' = [qHist EXCEPT !.refreshFailed = TRUE]
                               /\ UNCHANGED qAnswers
                          ELSE /\ qAnswers' = Tail(qAnswers)
                               /\ qHist' = [qHist EXCEPT !.refreshFailed = @ \/ ~refreshSuccess]
                               /\ UNCHANGED <<qpc, qClosed>>
    /\ UNCHANGED <<qVariant, qRemaining, qI, qCorrectOption, qAsked, qData>>
    /\ UNCHANGED dispVars
    /\ UNCHANGED nonQuizVars

\* Single-answer branch: option i of the loop over the options.  Quiz.ts has
\* no break after the click; the Quiz class of ABC.ts leaves the loop.
QuizSingle ==
    /\ qpc = "single"
    /\ IF qI >= qPage.numberOfOptions
       THEN /\ QuizIterationEnd
            /\ UNCHANGED <<qPage, qI, qClicks, qHist, qClosed>>
       ELSE IF qI + 1 > Len(qPage.question.dataOption)
       THEN \* the option is not on the page: waitForSelector times out
            /\ UNCHANGED <<qPage, qClicks, qQuestion>>
            /\ IF qVariant = "Quiz.ts"
               THEN /\ QuizCloseAndReturn
                    /\ qHist' = [qHist EXCEPT !.aborted = TRUE]
                    /\ UNCHANGED qI
               ELSE qI' = qI + 1 /\ UNCHANGED <<qpc, qHist, qClosed>>
       ELSE IF qPage.question.dataOption[qI + 1] # qCorrectOption
       THEN /\ qI' = qI + 1
            /\ UNCHANGED <<qpc, qPage, qClicks, qQuestion, qHist, qClosed>>
       ELSE \E clicked \in BOOLEAN :
            \E refreshSuccess \in BOOLEAN :
            \E next \in Questions(qPage.numberOfOptions) :
               /\ (~clicked) => (refreshSuccess /\ next = qPage.question)
               /\ IF ~clicked
                  THEN /\ qHist' = [qHist EXCEPT !.clickFailed = TRUE]
                       /\ UNCHANGED <<qPage, qClicks, qI>>
                       /\ IF qVariant = "Quiz.ts"
                          THEN QuizCloseAndReturn /\ UNCHANGED qQuestion
                          ELSE QuizIterationEnd /\ UNCHANGED qClosed
                  ELSE LET hit == qPage.question.dataOption[qI + 1] = qPage.question.correctAnswer IN
                       /\ qPage' = AfterAnswerClick(qPage, qI, next)
                       /\ qClicks' = Append(qClicks, [opt |-> qI, hit |-> hit,
                                                      refreshWaited |-> TRUE])
                       /\ IF StopsOnRefreshFailure(refreshSuccess)
                          THEN /\ QuizCloseAndReturn
                               /\ qHist' = [qHist EXCEPT !.refreshFailed = TRUE, !.wrongClick = @ \/ ~hit]
                               /\ UNCHANGED <<qI, qQuestion>>
                          ELSE /\ qHist' = [qHist EXCEPT !.refreshFailed = @ \/ ~refreshSuccess,
                                                         !.wrongClick = @ \/ ~hit]
                               /\ IF qVariant = "Quiz.ts"
                                  THEN qI' = qI + 1 /\ UNCHANGED <<qpc, qQuestion, qClosed>>
                                  ELSE QuizIterationEnd /\ UNCHANGED <<qI, qClosed>>
    /\ UNCHANGED <<qVariant, qRemaining, qCorrectOption, qAnswers, qAsked, qData>>
    /\ UNCHANGED dispVars
    /\ UNCHANGED nonQuizVars

\* The Quiz class of ABC.ts, end of the loop body: questionsRemaining is
\* recomputed from a fresh getQuizData, then question++
QuizRecalc ==
    /\ qpc = "recalc"
    /\ \E refreshed \in BOOLEAN :
          LET remaining == qPage.maxQuestions - qPage.CorrectlyAnsweredQuestionCount IN
          /\ qRemaining' = IF refreshed THEN remaining ELSE qRemaining
          /\ IF refreshed /\ remaining <= 0
             THEN qpc' = "finish" /\ UNCHANGED qQuestion
             ELSE qpc' = "loop" /\ qQuestion' = qQuestion + 1
    /\ UNCHANGED <<qVariant, qPage, qI, qCorrectOption, qAnswers, qAsked, qClicks, qHist, qClosed,
                   qData>>
    /\ UNCHANGED dispVars
    /\ UNCHANGED nonQuizVars

\* After the question loop: wait, page.close(), log
QuizFinish ==
    /\ qpc = "finish"
    /\ QuizCloseAndReturn
    /\ UNCHANGED <<qVariant, qPage, qRemaining, qQuestion, qI, qCorrectOption, qAnswers,
                   qAsked, qClicks, qHist, qData>>
    /\ UNCHANGED dispVars
    /\ UNCHANGED nonQuizVars

\* doQuiz has returned to solveActivities: cooldown, end of the loop body.
\* The locals of doQuiz and the closed page are gone.
QuizReturn ==
    /\ pc = "protocol"
    /\ qpc = "returned"
    /\ EndIteration("completed", TRUE)
    /\ qpc' = "done"
    /\ qPage' = [maxQuestions |-> 0, CorrectlyAnsweredQuestionCount |-> 0, numberOfOptions |-> 0,
                 question |-> NoQuestion, clicked |-> {}]
    /\ qRemaining' = 0
    /\ qQuestion' = 0
    /\ qI' = 0
    /\ qCorrectOption' = NoStr
    /\ qAnswers' = <<>>
    /\ qAsked' = NoQuestion
    /\ qClicks' = <<>>
    /\ qData' = NoQuizData
    /\ tabs' = IF qClosed THEN tabs - 1 ELSE tabs
    /\ UNCHANGED guardClosed
    /\ UNCHANGED <<qVariant, qHist, qClosed>>
    /\ UNCHANGED <<data, entry, cards, cardIdx, activities, punchArg, selectors, candidateCount,
                   tried, clickedResult, invoked, started>>
    /\ UNCHANGED <<clickVars, ovVars, abcVars, sqVars, cwVars, watchVars, exitVars, botVars, ciVars, appVars, goVars>>

\* The completion protocols other than Quiz, as one step
IterRunOther ==
    /\ pc = "clicked"
    /\ ProtocolFor(CurrentActivity) # "Quiz"
    /\ IterRun

\* Today's set of the run: a quiz of 30 points, then a quiz of 10 points
QuizDailySet == <<4, 2>>

InitQuiz ==
    /\ ClickIdle
    /\ tabs \in {1, TabCap}
    /\ guardClosed = FALSE
    /\ ABCIdle
    /\ QueryIdle
    /\ QuizClickIdle
    /\ WatchIdle
    /\ GoHomeIdle
    /\ AppIdle
    /\ CheckInIdle
    /\ BotIdle
    /\ ExitIdle
    /\ dom = [e \in Elements |-> [tagged |-> FALSE, display |-> "", sheet |-> "block"]]
    /\ data = [EmptyData EXCEPT !.dailySet = QuizDailySet]
    /\ DispIdle
    /\ OverlayIdle
    /\ qVariant \in QuizVariants
    /\ qpc = "idle"
    /\ qPage = [maxQuestions |-> 0, CorrectlyAnsweredQuestionCount |-> 0, numberOfOptions |-> 0,
                question |-> NoQuestion, clicked |-> {}]
    /\ QuizLocalsFresh

NextQuiz ==
    \/ DoDailySet
    \/ IterGuard
    \/ IterBuild
    \/ IterClick
    \/ IterSkip
    \/ IterRunOther
    \/ IterNext
    \/ FinishEntry
    \/ QuizCall
    \/ QuizStart
    \/ QuizLoop
    \/ QuizMulti
    \/ QuizSingle
    \/ QuizRecalc
    \/ QuizFinish
    \/ QuizReturn

SpecQuiz == InitQuiz /\ [][NextQuiz]_vars

(***************************************************************************)
(* Properties of the Quiz protocol (checked under SpecQuiz)                *)
(***************************************************************************)
InQuiz == qpc \in {"start", "loop", "multi", "single", "recalc", "finish", "returned"}

\* The body of the question loop has just been run to its end
QuizIterationDone ==
    /\ qAsked # NoQuestion
    /\ \/ qVariant = "Quiz.ts" /\ qpc = "loop" /\ qQuestion >= 1
       \/ qVariant = "ABC.ts" /\ qpc = "recalc"

\* No answer click and no refresh wait failed so far in this call
QuizClean == ~qHist.clickFailed /\ ~qHist.refreshFailed

\* C14 (as claimed): in the single-answer branch (numberOfOptions 2, 3 or 4)
\* exactly one answer click is issued for each question, on the option whose
\* data-option equals the correctAnswer of the question the page shows.
C14_OneClickOnCorrectOption ==
    (InQuiz /\ qPage.numberOfOptions \in {2, 3, 4}) =>
        /\ Len(qClicks) <= 1
        /\ \A k \in 1..Len(qClicks) : qClicks[k].hit
        /\ (QuizIterationDone /\ QuizClean) => Len(qClicks) = 1

C16_AnswersUntilNoneRemain ==
    (/\ qpc = "returned"
     /\ QuizClean
     /\ ~qHist.aborted
     /\ ~qHist.wrongClick
     /\ qPage.numberOfOptions \in {2, 3, 4, 8}) =>
        qPage.maxQuestions - qPage.CorrectlyAnsweredQuestionCount = 0

C19_EntryPointsAbsorbFailures ==
    /\ pc # "threw"
    /\ (entry = "punchCard" /\ pc \in {"returned", "threw"}) => cardIdx > Len(cards)

\* C22: the activity data given to the entry points is read-only input: no
\* step of doDailySet, doPunchCard, doMorePromotions or solveActivities
\* changes a record or the elements of a list of the dashboard data.
C22_DataReadOnly == [][data' = data]_vars

\* C23: the fixed cooldown pause (2000 ms) is applied after every activity
\* of the list whatever its outcome: completed, unsupported type, skipped
\* because no candidate could be clicked, or ended by an exception.
C23_CooldownAfterEveryActivity == (pc = "iterEnd") => cooled

\* C24: in a run that starts with at most 3 open tabs and in which each
\* activity opens at most one new tab, at most 3 tabs are open after the tab
\* guard at the start of every iteration of solveActivities, and the number
\* of open tabs never exceeds 4.
C24_TabsBounded ==
    /\ tabs <= TabCap + 1
    /\ (pc \in {"build", "click"}) => tabs <= TabCap

\* C24 witness: an activity left a fourth tab open and the guard of the next
\* iteration has closed one
C24_Witness ==
    /\ guardClosed
    /\ pc = "build"
    /\ started = 2
    /\ tabs = TabCap

\* C26: the QuizState that decides the clicks of a question (numberOfOptions,
\* correctAnswer) is fetched during that question's iteration of the question
\* loop, after the last click of the previous question; no question is decided
\* from a QuizState fetched for an earlier question.
C26_QuizStateFetchedPerQuestion ==
    (qpc \in {"multi", "single"}) => qData.fetchedFor = qQuestion

\* The option count the branch of the question loop is taken on
DecidingOptions ==
    IF RefetchesAtLoopHead(qVariant) THEN qPage.numberOfOptions ELSE qData.numberOfOptions

\* C27: when the QuizState of a question has a numberOfOptions outside
\* {2,3,4,8}, doQuiz issues no answer click for it and leaves the question
\* loop at once: no further iteration is run, nothing is thrown, and the page
\* is closed next.
C27_UnsupportedCountLeavesLoop ==
    [][(qpc = "loop" /\ qQuestion < qRemaining /\ DecidingOptions \notin {2, 3, 4, 8}) =>
          /\ qClicks' = <<>>
          /\ \/ qpc' \in {"finish", "returned"}
             \/ qpc' = "loop" /\ ~(qQuestion' < qRemaining')]_vars

(***************************************************************************)
(* ABC protocol: doABC, its question loop against a page that may never    *)
(* show the completion marker                                              *)
(***************************************************************************)
\* const maxIterations = 15
MaxIterations == 15

\* The id attribute of an answer element; NoStr when the element has none
AnswerIds == {NoStr, <<"w", "k">>}

\* What loadInCheerio can read: whether span.rw_icon is there, and the
\* .wk_OptionClickClass elements by their id
Snapshots == [marker : BOOLEAN, answers : SeqUpTo(AnswerIds, MaxAnswers)]

\* randomNumber(0, Math.max(0, answerCount - 1))
AnswerIndexes(answerCount) == 0..(IF answerCount - 1 > 0 THEN answerCount - 1 ELSE 0)

\* A retry that leaves the loop variable alone
AfterIteration_RetryFree(i, retried) == IF retried THEN i ELSE i + 1

\* The for statement's i++: it runs after `continue` as after a whole body
AfterIteration(i, retried) == i + 1

\* The log line after the loop
LoopOutcome(i) == IF i = MaxIterations THEN "failed" ELSE "completed"

\* The catch clause: page.close() in its own try, then the error is logged
CatchHandler(closeThrows) == [pc |-> "done", log |-> "error"]

ABCThrow ==
    /\ abcpc' = "catch"
    /\ abcHist' = [abcHist EXCEPT !.threw = TRUE]

\* doABC(page) is called: the first loadInCheerio and the loop initialisation
ABCCall ==
    /\ abcpc = "idle"
    /\ abcI' = 0
    /\ \E throws \in BOOLEAN, snap \in Snapshots :
          IF throws THEN ABCThrow /\ UNCHANGED abcDollar
          ELSE /\ abcDollar' = snap
               /\ abcpc' = "loop"
               /\ UNCHANGED abcHist
    /\ UNCHANGED <<abcRuns, abcLog>>
    /\ UNCHANGED nonAbcVars

\* The loop condition: i < maxIterations && !$('span.rw_icon').length
ABCLoopTest ==
    /\ abcpc = "loop"
    /\ abcpc' = IF abcI < MaxIterations /\ ~abcDollar.marker THEN "body" ELSE "close"
    /\ abcHist' = [abcHist EXCEPT !.markerSeen = @ \/ abcDollar.marker]
    /\ UNCHANGED <<abcI, abcDollar, abcRuns, abcLog>>
    /\ UNCHANGED nonAbcVars

\* One execution of the loop body, up to and including the i++ of the for
ABCBody ==
    /\ abcpc = "body"
    /\ abcRuns <= MaxIterations
    /\ abcRuns' = abcRuns + 1
    /\ LET answers == abcDollar.answers
           answerCount == Len(answers)
       IN \E throws \in BOOLEAN, snap \in Snapshots, pick \in AnswerIndexes(answerCount) :
             LET noAnswers == answerCount = 0
                 noId == ~noAnswers /\ answers[pick + 1] = NoStr
                 retried == noAnswers \/ noId
             IN IF throws THEN ABCThrow /\ UNCHANGED <<abcI, abcDollar>>
                ELSE /\ abcDollar' = snap
                     /\ abcI' = AfterIteration(abcI, retried)
                     /\ abcpc' = "loop"
                     /\ abcHist' = [abcHist EXCEPT !.noAnswers = @ \/ noAnswers,
                                                   !.noId = @ \/ noId]
    /\ UNCHANGED abcLog
    /\ UNCHANGED nonAbcVars

\* After the loop: page.close(), then the outcome is logged
ABCClose ==
    /\ abcpc = "close"
    /\ \E closeThrows \in BOOLEAN :
          IF closeThrows
          THEN /\ abcpc' = "catch"
               /\ abcHist' = [abcHist EXCEPT !.threw = TRUE, !.closeRequested = TRUE]
               /\ UNCHANGED abcLog
          ELSE /\ abcLog' = LoopOutcome(abcI)
               /\ abcpc' = "done"
               /\ abcHist' = [abcHist EXCEPT !.closeRequested = TRUE]
    /\ UNCHANGED <<abcI, abcDollar, abcRuns>>
    /\ UNCHANGED nonAbcVars

\* The catch clause of doABC
ABCCatch ==
    /\ abcpc = "catch"
    /\ \E closeThrows \in BOOLEAN :
          /\ abcpc' = CatchHandler(closeThrows).pc
          /\ abcLog' = CatchHandler(closeThrows).log
    /\ abcHist' = [abcHist EXCEPT !.closeRequested = TRUE]
    /\ UNCHANGED <<abcI, abcDollar, abcRuns>>
    /\ UNCHANGED nonAbcVars

InitABC ==
    /\ ClickIdle
    /\ TabsIdle
    /\ dom = [e \in Elements |-> [tagged |-> FALSE, display |-> "", sheet |-> "block"]]
    /\ data = EmptyData
    /\ DispIdle
    /\ OverlayIdle
    /\ QuizIdle
    /\ ABCIdle
    /\ QueryIdle
    /\ QuizClickIdle
    /\ WatchIdle
    /\ GoHomeIdle
    /\ AppIdle
    /\ CheckInIdle
    /\ BotIdle
    /\ ExitIdle

NextABC ==
    \/ ABCCall
    \/ ABCLoopTest
    \/ ABCBody
    \/ ABCClose
    \/ ABCCatch

\* Every await of doABC settles: the waits for selectors and the clicks
\* carry a timeout, the sleeps are timers
SpecABC == InitABC /\ [][NextABC]_vars /\ WF_vars(NextABC)

C25_FailureIffMarkerAbsent ==
    (abcpc = "done" /\ ~abcHist.threw) =>
        ((abcLog = "failed") <=> ~abcDollar.marker)

(***************************************************************************)
(* SearchOnBing: getSearchQuery and its title normalisation.  A string is  *)
(* a sequence of characters; a character outside ASCII is written by name. *)
(***************************************************************************)
\* Characters titles are made of: letters, a space, punctuation, a letter
\* with a diacritic, a dash outside ASCII
TitleChars == {"a", "A", " ", "?", ".", "e_acute", "en_dash"}

\* Printable ASCII (\x20-\x7E) among the characters of the model
PrintableAscii == {"a", "A", "e", " ", "?", "!", ".", "q", "1", "2"}

\* Canonical decomposition of one character
DecomposeChar(c) == IF c = "e_acute" THEN <<"e", "combining_acute">> ELSE <<c>>

RECURSIVE NormalizeNFD(_)
\* String.prototype.normalize('NFD')
NormalizeNFD(str) ==
    IF str = <<>> THEN <<>> ELSE DecomposeChar(Head(str)) \o NormalizeNFD(Tail(str))

WhiteSpace == {" "}

RECURSIVE TrimStart(_)
TrimStart(str) ==
    IF str # <<>> /\ Head(str) \in WhiteSpace THEN TrimStart(Tail(str)) ELSE str

RECURSIVE TrimEnd(_)
TrimEnd(str) ==
    IF str # <<>> /\ str[Len(str)] \in WhiteSpace
    THEN TrimEnd(SubSeq(str, 1, Len(str) - 1))
    ELSE str

\* String.prototype.trim
Trim(str) == TrimEnd(TrimStart(str))

RECURSIVE RemoveAll(_, _)
\* str.replace(/[...]/g, ''): every character of the class is dropped
RemoveAll(str, class) ==
    IF str = <<>> THEN <<>>
    ELSE (IF Head(str) \in class THEN <<>> ELSE <<Head(str)>>) \o RemoveAll(Tail(str), class)

\* The same without trim()
NormalizeString_NoTrim(string) ==
    LET lowered == ToLowerCase(NormalizeNFD(string))
        ascii == RemoveAll(lowered, {lowered[i] : i \in 1..Len(lowered)} \ PrintableAscii)
    IN RemoveAll(ascii, {"?", "!"})

\* normalize('NFD').trim().toLowerCase().replace(/[^\x20-\x7E]/g, '').replace(/[?!]/g, '')
NormalizeString(string) ==
    LET lowered == ToLowerCase(Trim(NormalizeNFD(string)))
        ascii == RemoveAll(lowered, {lowered[i] : i \in 1..Len(lowered)} \ PrintableAscii)
    IN RemoveAll(ascii, {"?", "!"})

\* Titles of the activity
Titles == SeqUpTo(TitleChars, MaxTitleLen)

\* Titles and query lists of the entries of queries.json
TableTitles == {<<"A">>, <<"e">>, <<"a", "!">>, <<"?">>}
QueryLists == {<<>>, << <<"q", "1">> >>, << <<"q", "1">>, <<"q", "2">> >>}
Tables == SeqUpTo([title : TableTitles, queries : QueryLists], MaxEntries)

\* What a value typed string holds when the expression gave undefined
Undefined == <<"undefined">>

\* queries.find(x => normalizeString(x.title) === normalizeString(title)):
\* the position of the first such entry, 0 for undefined
Find(queries, title) ==
    LET hits == {i \in 1..Len(queries) :
                    NormalizeString(queries[i].title) = NormalizeString(title)}
    IN IF hits = {} THEN 0 ELSE CHOOSE i \in hits : \A j \in hits : i <= j

\* shuffleArray(arr)[0]: any element of arr, undefined for an empty array
ShuffledFirst(arr) == IF arr = <<>> THEN {Undefined} ELSE {arr[i] : i \in 1..Len(arr)}

\* const answer = answers ? shuffleArray(answers?.queries)[0] as string : title
Answer(queries, title) ==
    LET answers == Find(queries, title)
    IN IF answers # 0 THEN ShuffledFirst(queries[answers].queries) ELSE {title}

\* The table is read (local file) or fetched (remote); either can fail
QueryLoad ==
    /\ sqpc = "start"
    /\ sqpc' = IF sqSource.fails THEN "catch" ELSE "loaded"
    /\ UNCHANGED <<sqTitle, sqSource, sqKey, sqResult>>
    /\ UNCHANGED nonSqVars

\* The lookup and the return of the try block
QueryAnswer ==
    /\ sqpc = "loaded"
    /\ sqKey' = NormalizeString(sqTitle)
    /\ sqResult' \in Answer(sqSource.table, sqTitle)
    /\ sqpc' = "returned"
    /\ UNCHANGED <<sqTitle, sqSource>>
    /\ UNCHANGED nonSqVars

\* The catch clause: log, return title
QueryCatch ==
    /\ sqpc = "catch"
    /\ sqResult' = sqTitle
    /\ sqpc' = "returned"
    /\ UNCHANGED <<sqTitle, sqSource, sqKey>>
    /\ UNCHANGED nonSqVars

InitQuery ==
    /\ ClickIdle
    /\ TabsIdle
    /\ dom = [e \in Elements |-> [tagged |-> FALSE, display |-> "", sheet |-> "block"]]
    /\ data = EmptyData
    /\ DispIdle
    /\ OverlayIdle
    /\ QuizIdle
    /\ ABCIdle
    /\ QuizClickIdle
    /\ WatchIdle
    /\ GoHomeIdle
    /\ AppIdle
    /\ CheckInIdle
    /\ BotIdle
    /\ ExitIdle
    /\ sqpc = "start"
    /\ sqTitle \in Titles
    /\ sqSource \in [local : BOOLEAN, fails : BOOLEAN, table : Tables]
    /\ sqKey = <<>>
    /\ sqResult = <<>>

NextQuery ==
    \/ QueryLoad
    \/ QueryAnswer
    \/ QueryCatch

SpecQuery == InitQuery /\ [][NextQuery]_vars

\* Entries of the table whose normalized title equals the normalized title
Matching == {i \in 1..Len(sqSource.table) :
                NormalizeString(sqSource.table[i].title) = NormalizeString(sqTitle)}

\* C20: getSearchQuery never throws; it returns the literal title when no
\* entry of the table has a normalized title equal to the normalized activity
\* title and when reading or fetching the table fails; otherwise it returns
\* one of the query strings of a matching entry.
C20_QueryOrLiteralTitle ==
    /\ sqpc \in {"idle", "start", "loaded", "catch", "returned"}
    /\ sqpc = "returned" =>
          IF sqSource.fails \/ Matching = {}
          THEN sqResult = sqTitle
          ELSE \E i \in Matching :
                  \E k \in 1..Len(sqSource.table[i].queries) :
                     sqResult = sqSource.table[i].queries[k]

\* Punctuation characters of the model
Punctuation == {"?", "!", ".", "en_dash"}

\* The letter a character stands for when its diacritic is ignored
BaseLetter(c) == IF c = "e_acute" THEN "e" ELSE c

\* A title with letter case, whitespace, punctuation and diacritics ignored
Skeleton(str) ==
    LET bare == RemoveAll(str, WhiteSpace \cup Punctuation)
    IN ToLowerCase([i \in 1..Len(bare) |-> BaseLetter(bare[i])])

\* Occurrences of the characters of a class in a string
Count(str, class) == Cardinality({i \in 1..Len(str) : str[i] \in class})

\* The lookup of getSearchQuery has run on a table that was read
LookedUp == sqpc = "returned" /\ ~sqSource.fails

QuizSelectors == {"#rqStartQuiz", "#rqAnswerOption0", "#rqAnswerOption1"}

\* maxAttempts values doQuiz passes: 3, and 1 for the retry of an answer
QuizMaxAttempts == {1, 3}

\* Selectors findDailyCandidates builds from the .pointLink elements of the
\* page: by data-bi-id of a daily item, or by position under the parent
DailySelectors == {"[data-bi-id=daily] .pointLink", "div .pointLink:nth-of-type(1)"}

\* findDailyCandidates: the selectors of the page's .pointLink elements in
\* document order, each once (seen); [] when page.evaluate throws
FindDailyCandidates ==
    {<<>>} \cup {<<a>> : a \in DailySelectors}
           \cup UNION {{<<a, b>> : b \in DailySelectors \ {a}} : a \in DailySelectors}

\* hideBlockingOverlays: tags and hides every displayed positioned element
\* that overlaps the target (ov); nothing when page.evaluate throws
HideBlockingOverlays(d, ov) == HideOverlappingOverlays(d, ov)

\* isVisibleAndClickable: ok, or the reason
VisibilityReasons == {"ok", "not-found", "zero-bounding-box", "css-hidden", "visibility-check-error"}

\* Reasons after which tryClickOnce returns before any click
EarlyReturn(reason) == reason \in {"not-found", "zero-bounding-box"}

\* Reasons after which the loop over the caller's selector tries again
TransientOwn(reason) == reason \in {"css-hidden", "visibility-check-error"}

\* Reasons after which the loop over a candidate tries the candidate again
TransientCandidate(reason) == reason \in {"css-hidden", "visibility-check-error", "click-failed"}

\* tryClickOnce(sel): every outcome it can have on page d.  res is the value
\* returned, dom the page afterwards, clicked whether a click went to the
\* element matched by sel.  After css-hidden the overlays are hidden and the
\* click strategies run; after visibility-check-error they run as well.
TryClickOnce(d) ==
    LET after(v) == IF v = "css-hidden"
                    THEN {HideBlockingOverlays(d, ov) : ov \in SUBSET DOMAIN d}
                    ELSE {d}
    IN UNION {IF EarlyReturn(v)
              THEN {[res |-> Fail(v), dom |-> d, clicked |-> FALSE]}
              ELSE UNION {{[res |-> Fail("click-failed"), dom |-> dd, clicked |-> FALSE],
                           [res |-> Success(TRUE), dom |-> dd, clicked |-> TRUE],
                           [res |-> Success(FALSE), dom |-> dd, clicked |-> TRUE]}
                          : dd \in after(v)}
              : v \in VisibilityReasons}

\* step 1: one pass of the loop over the selector the caller provided
CWOwn ==
    /\ cwpc = "own"
    /\ cwAttempt <= cwMaxAttempts
    /\ \E o \in TryClickOnce(cwDom) :
        /\ cwDom' = o.dom
        /\ cwClicked' = IF o.clicked THEN Append(cwClicked, cwSelector) ELSE cwClicked
        /\ IF o.res.success
           THEN /\ cwResult' = o.res
                /\ cwpc' = "returned"
                /\ cwAttempt' = cwAttempt
           ELSE IF TransientOwn(o.res.reason)
           THEN /\ cwAttempt' = cwAttempt + 1
                /\ cwpc' = IF cwAttempt + 1 <= cwMaxAttempts THEN "own" ELSE "find"
                /\ cwResult' = cwResult
           ELSE /\ cwpc' = "find"
                /\ cwAttempt' = cwAttempt
                /\ cwResult' = cwResult
    /\ UNCHANGED <<cwSelector, cwMaxAttempts, cwCandidates, cwCandidate>>
    /\ UNCHANGED nonCwVars

\* step 2: findDailyCandidates; no-candidates when it gives none
CWFind ==
    /\ cwpc = "find"
    /\ \E cands \in FindDailyCandidates :
        /\ cwCandidates' = cands
        /\ IF cands = <<>>
           THEN /\ cwResult' = Fail("no-candidates")
                /\ cwpc' = "returned"
                /\ cwCandidate' = cwCandidate
                /\ cwAttempt' = cwAttempt
           ELSE /\ cwpc' = "candidates"
                /\ cwCandidate' = 1
                /\ cwAttempt' = 1
                /\ cwResult' = cwResult
    /\ UNCHANGED <<cwSelector, cwMaxAttempts, cwClicked, cwDom>>
    /\ UNCHANGED nonCwVars

\* step 2: one pass of the inner loop over the current candidate
CWCandidate ==
    /\ cwpc = "candidates"
    /\ \E o \in TryClickOnce(cwDom) :
        /\ cwDom' = o.dom
        /\ cwClicked' = IF o.clicked THEN Append(cwClicked, cwCandidates[cwCandidate]) ELSE cwClicked
        /\ IF o.res.success
           THEN /\ cwResult' = o.res
                /\ cwpc' = "returned"
                /\ UNCHANGED <<cwCandidate, cwAttempt>>
           ELSE IF TransientCandidate(o.res.reason) /\ cwAttempt < cwMaxAttempts
           THEN /\ cwAttempt' = cwAttempt + 1
                /\ UNCHANGED <<cwCandidate, cwpc, cwResult>>
           ELSE IF cwCandidate < Len(cwCandidates)
           THEN /\ cwCandidate' = cwCandidate + 1
                /\ cwAttempt' = 1
                /\ UNCHANGED <<cwpc, cwResult>>
           ELSE /\ cwResult' = Fail("max-retries")
                /\ cwpc' = "returned"
                /\ UNCHANGED <<cwCandidate, cwAttempt>>
    /\ UNCHANGED <<cwSelector, cwMaxAttempts, cwCandidates>>
    /\ UNCHANGED nonCwVars

\* doQuiz calls clickWithRetries on a quiz page whose overlays are displayed
\* or not by their stylesheet and carry no tag
InitQuizClick ==
    /\ ClickIdle
    /\ TabsIdle
    /\ dom = [e \in Elements |-> [tagged |-> FALSE, display |-> "", sheet |-> "block"]]
    /\ data = EmptyData
    /\ DispIdle
    /\ OverlayIdle
    /\ QuizIdle
    /\ ABCIdle
    /\ QueryIdle
    /\ WatchIdle
    /\ GoHomeIdle
    /\ AppIdle
    /\ CheckInIdle
    /\ BotIdle
    /\ ExitIdle
    /\ cwpc = "own"
    /\ cwSelector \in QuizSelectors
    /\ cwMaxAttempts \in QuizMaxAttempts
    /\ cwAttempt = 1
    /\ cwCandidates = <<>>
    /\ cwCandidate = 0
    /\ cwClicked = <<>>
    /\ cwResult = NoResult
    /\ cwDom \in [Elements -> [tagged : {FALSE}, display : {""}, sheet : {"block", "none"}]]

NextQuizClick ==
    \/ CWOwn
    \/ CWFind
    \/ CWCandidate

SpecQuizClick == InitQuizClick /\ [][NextQuizClick]_vars

\* C28 (as claimed): every click of a clickWithRetries call goes to the
\* element matched by the selector its caller passed, and success is returned
\* only after such a click.
C28_SuccessOnlyForPassedSelector ==
    /\ \A k \in DOMAIN cwClicked : cwClicked[k] = cwSelector
    /\ (cwpc = "returned" /\ cwResult.success) => cwClicked # <<>>

\* C29 (as claimed): when clickWithRetries has returned, no element is left
\* hidden or tagged data-qa-hidden-temp.
C29_OverlaysRestoredOnReturn ==
    (cwpc = "returned") =>
        \A e \in DOMAIN cwDom : ~cwDom[e].tagged /\ cwDom[e].display # "none"

(***************************************************************************)
(* The popup and navigation watchers of tryOnce, followed on a clock       *)
(***************************************************************************)
\* context.waitForEvent('page', { timeout: 1500 }) and
\* page.waitForNavigation({ timeout: 1500 })
WatcherTimeout == 1500

\* perAttemptTimeout = 10000, the timeout of locator.click
PerAttemptTimeout == 10000

\* Granularity of the clock, in milliseconds
ClockStep == 500

\* What a click that went through does: it opens a new tab, navigates the
\* page, or neither
ClickEffects == {"tab", "navigation", "nothing"}

\* .catch(() => null) of a watcher whose timeout ran out
Expired(promise) == IF promise = "pending" THEN "null" ELSE promise

\* A pending watcher is resolved by its event
Resolved(promise, event, value) == IF promise = "pending" /\ event THEN value ELSE promise

\* tryOnce: the two watchers are created, before the click strategies
WatchArm ==
    /\ wpc = "arm"
    /\ wPopupPromise' = "pending"
    /\ wNavPromise' = "pending"
    /\ wNow' = 0
    /\ wpc' = "cascade"
    /\ UNCHANGED <<wEffect, wClickedAt, wResult>>
    /\ UNCHANGED nonWatchVars

\* Time passes while a click strategy waits for the element or while
\* tryOnce awaits a pending watcher; a watcher whose timeout is due is
\* settled first
WatchTick ==
    /\ \/ wpc = "cascade"
       \/ wpc = "detect" /\ "pending" \in {wPopupPromise, wNavPromise}
    /\ wNow + ClockStep <= PerAttemptTimeout
    /\ ~(wNow >= WatcherTimeout /\ "pending" \in {wPopupPromise, wNavPromise})
    /\ wNow' = wNow + ClockStep
    /\ UNCHANGED <<wpc, wPopupPromise, wNavPromise, wEffect, wClickedAt, wResult>>
    /\ UNCHANGED nonWatchVars

\* The timeout of the watchers runs out: the pending ones give null
WatchExpire ==
    /\ wpc \in {"cascade", "detect"}
    /\ wNow >= WatcherTimeout
    /\ "pending" \in {wPopupPromise, wNavPromise}
    /\ wPopupPromise' = Expired(wPopupPromise)
    /\ wNavPromise' = Expired(wNavPromise)
    /\ UNCHANGED <<wpc, wNow, wEffect, wClickedAt, wResult>>
    /\ UNCHANGED nonWatchVars

\* The click strategies end: one of them went through, with its effect on
\* the browser, or all of them failed (click-failed)
WatchClick ==
    /\ wpc = "cascade"
    /\ \/ \E e \in ClickEffects :
            /\ wEffect' = e
            /\ wClickedAt' = wNow
            /\ wPopupPromise' = Resolved(wPopupPromise, e = "tab", "page")
            /\ wNavPromise' = Resolved(wNavPromise, e = "navigation", "nav")
            /\ wpc' = "detect"
            /\ wResult' = wResult
       \/ /\ wResult' = Fail("click-failed")
          /\ wpc' = "returned"
          /\ UNCHANGED <<wEffect, wClickedAt, wPopupPromise, wNavPromise>>
    /\ wNow' = wNow
    /\ UNCHANGED nonWatchVars

\* tryOnce: both watchers are settled; {success: true, popup} when the popup
\* watcher gave a page, {success: true} otherwise
WatchDetect ==
    /\ wpc = "detect"
    /\ "pending" \notin {wPopupPromise, wNavPromise}
    /\ wResult' = Success(wPopupPromise = "page")
    /\ wpc' = "returned"
    /\ UNCHANGED <<wNow, wPopupPromise, wNavPromise, wEffect, wClickedAt>>
    /\ UNCHANGED nonWatchVars

InitWatch ==
    /\ ClickIdle
    /\ TabsIdle
    /\ dom = [e \in Elements |-> [tagged |-> FALSE, display |-> "", sheet |-> "block"]]
    /\ data = EmptyData
    /\ DispIdle
    /\ OverlayIdle
    /\ QuizIdle
    /\ ABCIdle
    /\ QueryIdle
    /\ QuizClickIdle
    /\ ExitIdle
    /\ BotIdle
    /\ CheckInIdle
    /\ AppIdle
    /\ GoHomeIdle
    /\ wpc = "arm"
    /\ wNow = 0
    /\ wPopupPromise = "none"
    /\ wNavPromise = "none"
    /\ wEffect = "none"
    /\ wClickedAt = -1
    /\ wResult = NoResult

NextWatch ==
    \/ WatchArm
    \/ WatchTick
    \/ WatchExpire
    \/ WatchClick
    \/ WatchDetect

SpecWatch == InitWatch /\ [][NextWatch]_vars

\* C30 (as claimed): the watchers exist when the click goes through, and a
\* tryOnce whose click opened a new tab returns {success: true, popup},
\* whenever within perAttemptTimeout the click went through.
C30_OpenedTabReturnedAsPopup ==
    /\ (wClickedAt # -1) => (wPopupPromise # "none" /\ wNavPromise # "none")
    /\ (wpc = "returned" /\ wEffect = "tab") => wResult = Success(TRUE)

(***************************************************************************)
(* Exit paths of the completion protocols: doPoll, doABC, doQuiz and       *)
(* doSearchOnBing                                                          *)
(***************************************************************************)
Protocols == {"doPoll", "doABC", "doQuiz", "doSearchOnBing"}

\* The awaited operations of the try block before its page.close(), in
\* order, with whether a rejection of the operation reaches the catch clause
PollBody ==
    << [op |-> "waitForSelector", rejects |-> FALSE],
       [op |-> "wait", rejects |-> FALSE],
       [op |-> "click", rejects |-> TRUE],
       [op |-> "wait", rejects |-> FALSE] >>

SearchOnBingBody ==
    << [op |-> "wait", rejects |-> FALSE],
       [op |-> "tryDismissAllMessages", rejects |-> TRUE],
       [op |-> "getSearchQuery", rejects |-> FALSE],
       [op |-> "waitForSelector", rejects |-> TRUE],
       [op |-> "wait", rejects |-> FALSE],
       [op |-> "click", rejects |-> TRUE],
       [op |-> "wait", rejects |-> FALSE],
       [op |-> "type", rejects |-> TRUE],
       [op |-> "wait", rejects |-> FALSE],
       [op |-> "press", rejects |-> TRUE],
       [op |-> "wait", rejects |-> FALSE],
       [op |-> "wait", rejects |-> FALSE] >>

TryBody(protocol) == IF protocol = "doPoll" THEN PollBody ELSE SearchOnBingBody

\* Variant of CatchClose in which the catch clause logs without closing
CatchClose_LogOnly(n) == n

\* await page.close() of the catch clause: one more close request
CatchClose(n) == n + 1

\* doPoll(page) / doSearchOnBing(page, activity) is called
ExitCall ==
    /\ xProtocol \in {"doPoll", "doSearchOnBing"}
    /\ xpc = "idle"
    /\ xpc' = "try"
    /\ xStep' = 1
    /\ UNCHANGED <<xProtocol, xCloseRequests, xLog>>
    /\ UNCHANGED nonExitVars

\* The next awaited operation of the try block settles
ExitStep ==
    /\ xProtocol \in {"doPoll", "doSearchOnBing"}
    /\ xpc = "try"
    /\ IF xStep > Len(TryBody(xProtocol))
       THEN xpc' = "close" /\ UNCHANGED xStep
       ELSE \E rejected \in BOOLEAN :
               /\ rejected => TryBody(xProtocol)[xStep].rejects
               /\ IF rejected
                  THEN xpc' = "catch" /\ UNCHANGED xStep
                  ELSE xStep' = xStep + 1 /\ UNCHANGED xpc
    /\ UNCHANGED <<xProtocol, xCloseRequests, xLog>>
    /\ UNCHANGED nonExitVars

\* await page.close() at the end of the try block, then the success log
ExitClose ==
    /\ xProtocol \in {"doPoll", "doSearchOnBing"}
    /\ xpc = "close"
    /\ xCloseRequests' = xCloseRequests + 1
    /\ \E closeThrows \in BOOLEAN :
          IF closeThrows
          THEN xpc' = "catch" /\ UNCHANGED xLog
          ELSE xpc' = "done" /\ xLog' = "completed"
    /\ UNCHANGED <<xProtocol, xStep>>
    /\ UNCHANGED nonExitVars

\* The catch clause: await page.close(), then the error log; a close that
\* throws here leaves the method by exception
ExitCatch ==
    /\ xProtocol \in {"doPoll", "doSearchOnBing"}
    /\ xpc = "catch"
    /\ xCloseRequests' = CatchClose(xCloseRequests)
    /\ \E closeThrows \in BOOLEAN :
          IF closeThrows
          THEN xpc' = "thrown" /\ UNCHANGED xLog
          ELSE xpc' = "done" /\ xLog' = "error"
    /\ UNCHANGED <<xProtocol, xStep>>
    /\ UNCHANGED nonExitVars

\* One protocol is called on its page; doQuiz is reached through the
\* dispatcher, in either of its two sources
InitExit ==
    /\ ClickIdle
    /\ guardClosed = FALSE
    /\ ABCIdle
    /\ QueryIdle
    /\ QuizClickIdle
    /\ WatchIdle
    /\ GoHomeIdle
    /\ AppIdle
    /\ CheckInIdle
    /\ BotIdle
    /\ dom = [e \in Elements |-> [tagged |-> FALSE, display |-> "", sheet |-> "block"]]
    /\ DispIdle
    /\ OverlayIdle
    /\ xProtocol \in Protocols
    /\ xpc = "idle"
    /\ xStep = 0
    /\ xCloseRequests = 0
    /\ xLog = "none"
    /\ tabs \in (IF xProtocol = "doQuiz" THEN {1, TabCap} ELSE {1})
    /\ data = (IF xProtocol = "doQuiz" THEN [EmptyData EXCEPT !.dailySet = QuizDailySet]
               ELSE EmptyData)
    /\ qVariant \in (IF xProtocol = "doQuiz" THEN QuizVariants ELSE {"none"})
    /\ qpc = "idle"
    /\ qPage = [maxQuestions |-> 0, CorrectlyAnsweredQuestionCount |-> 0, numberOfOptions |-> 0,
                question |-> NoQuestion, clicked |-> {}]
    /\ QuizLocalsFresh

NextExit ==
    \/ ExitCall
    \/ ExitStep
    \/ ExitClose
    \/ ExitCatch
    \/ xProtocol = "doABC" /\ NextABC
    \/ xProtocol = "doQuiz" /\ NextQuiz

SpecExit == InitExit /\ [][NextExit]_vars

\* C31: whenever doPoll, doABC, doQuiz or doSearchOnBing has been left, by
\* normal completion, by an early return or through its catch clause,
\* page.close() was called in that call.
C31_EveryExitRequestsClose ==
    /\ (xpc \in {"done", "thrown"}) => xCloseRequests >= 1
    /\ (abcpc = "done") => abcHist.closeRequested
    /\ (qpc = "returned") => qClosed

\* doSearchOnBing left through its catch clause after a rejected operation
\* of the try block
C31_Witness ==
    /\ xProtocol = "doSearchOnBing"
    /\ xpc = "done"
    /\ xLog = "error"
    /\ xStep <= Len(SearchOnBingBody)
    /\ xCloseRequests = 1

(***************************************************************************)
(* MicrosoftRewardsBot: runTasks with Desktop and Mobile                   *)
(***************************************************************************)
Accounts == 1..MaxAccounts

\* accounts in the order of the list
AccountList == [k \in 1..MaxAccounts |-> k]

\* (accounts || []).filter(a => a.doLater)
FailedAccounts(flags) == SelectSeq(AccountList, LAMBDA a : flags[a])

\* Variant of ClearFlag that leaves the flag as it is
ClearFlag_Keep(flags, a) == flags

\* acc.doLater = false
ClearFlag(flags, a) == [flags EXCEPT ![a] = FALSE]

\* The ways through Desktop.  "createThrows": createBrowser or the first
\* newPage rejects; "setupThrows": goHome, getDashboardData or
\* getBrowserEarnablePoints rejects; "workerThrows": newPage, goHome, a worker,
\* doSearch or saveSessionData rejects.
DesktopPaths == {"createThrows", "loginThrows", "loginFailed", "flagSet", "setupThrows",
                 "nothingToEarn", "workerThrows", "completed"}

\* The ways through one invocation of Mobile.  "searched": the mobile
\* searches were run and the retry counter was tested; "noSearch": they were
\* not run; "finalThrows": getCurrentPoints rejects, with or without searches.
MobilePaths == {"createThrows", "loginThrows", "loginFailed", "flagSet", "setupThrows",
                "nothingToEarn", "workerThrows", "searched", "noSearch", "finalThrows"}

\* Paths on which the method is left by exception
Throws(path) == path \in {"createThrows", "loginThrows", "setupThrows", "workerThrows", "finalThrows"}

\* Paths on which closeBrowser is called before the method is left
ClosesBrowser(path) == path \in {"loginFailed", "flagSet", "nothingToEarn", "completed", "noSearch",
                                 "searched"}

\* Paths on which a browser was created
CreatesBrowser(path) == path # "createThrows"

\* Paths open to the method given the doLater flag of the account before
\* login: with the flag set, `if (account.doLater)` returns after login
PathAllowed(path, flagged) ==
    IF flagged THEN path \in {"createThrows", "loginThrows", "flagSet"} ELSE path # "flagSet"

\* What getSearchPoints().mobileSearch?.[0] shows after doSearch
SearchPoints == {"incomplete", "complete", "missing"}

\* mobileSearchPoints && (pointProgressMax - pointProgress) > 0: mobileRetryAttempts++
AfterSearch(counter, points) == IF points = "incomplete" THEN counter + 1 ELSE counter

\* The three-way branch on the retry counter
RetryDecision(counter, amount) ==
    IF counter > amount THEN "exhausted"
    ELSE IF counter # 0 THEN "retry"
    ELSE "finish"

\* The retry counter of the bot instance Mobile runs on: with config.parallel
\* a new MicrosoftRewardsBot(true) per account, else this
Counter == IF tParallel THEN instanceAttempts ELSE mobileRetryAttempts

\* runTasks takes the next account of a pass: Desktop and Mobile are to run
BeginAccount(a) ==
    /\ tAccount' = a
    /\ tRuns' = [tRuns EXCEPT ![a] = @ + 1]
    /\ dState' = "todo"
    /\ mState' = "todo"
    /\ mReinvocations' = 0
    /\ mCompleteSeen' = FALSE
    /\ instanceAttempts' = 0
    /\ mStartAttempts' = IF tParallel THEN 0 ELSE mobileRetryAttempts
    /\ UNCHANGED <<tParallel, tRetryAmount, mobileRetryAttempts, mRerunAfterComplete, tLeak>>

\* The first pass: for (const account of accounts); after it the filter on
\* doLater that starts the retry pass
RunTasksFirst ==
    /\ tpc = "first"
    /\ tAccount = 0
    /\ IF tQueue # <<>>
       THEN /\ BeginAccount(Head(tQueue))
            /\ tQueue' = Tail(tQueue)
            /\ UNCHANGED <<tpc, doLater, failedAccounts, tFlaggedAfterFirst, tRerunFlagged>>
       ELSE /\ failedAccounts' = FailedAccounts(doLater)
            /\ tFlaggedAfterFirst' = {a \in Accounts : doLater[a]}
            /\ tQueue' = failedAccounts'
            /\ tpc' = IF Len(failedAccounts') > 0 THEN "retry" ELSE "done"
            /\ UNCHANGED <<tParallel, tRetryAmount, tAccount, doLater, tRuns, tRerunFlagged,
                           mobileRetryAttempts, instanceAttempts, dState, mState, mReinvocations,
                           mCompleteSeen, mRerunAfterComplete, mStartAttempts, tLeak>>
    /\ UNCHANGED nonBotVars

\* The retry pass: for (const acc of failedAccounts)
RunTasksRetry ==
    /\ tpc = "retry"
    /\ tAccount = 0
    /\ IF tQueue # <<>>
       THEN /\ doLater' = ClearFlag(doLater, Head(tQueue))
            /\ tRerunFlagged' = (tRerunFlagged \/ doLater'[Head(tQueue)])
            /\ BeginAccount(Head(tQueue))
            /\ tQueue' = Tail(tQueue)
            /\ UNCHANGED <<tpc, failedAccounts, tFlaggedAfterFirst>>
       ELSE /\ tpc' = "done"
            /\ UNCHANGED <<tParallel, tRetryAmount, tQueue, tAccount, doLater, tRuns, failedAccounts,
                           tFlaggedAfterFirst, tRerunFlagged, mobileRetryAttempts, instanceAttempts,
                           dState, mState, mReinvocations, mCompleteSeen, mRerunAfterComplete,
                           mStartAttempts, tLeak>>
    /\ UNCHANGED nonBotVars

\* Desktop(account), from createBrowser to the return or the exception
DesktopRun ==
    /\ tAccount # 0
    /\ dState = "todo"
    /\ \E path \in DesktopPaths :
          /\ PathAllowed(path, doLater[tAccount])
          /\ doLater' = IF path = "loginFailed" THEN [doLater EXCEPT ![tAccount] = TRUE] ELSE doLater
          /\ dState' = IF Throws(path) THEN "threw" ELSE "returned"
          /\ tLeak' = (tLeak \/ (CreatesBrowser(path) /\ ~ClosesBrowser(path)))
    /\ UNCHANGED <<tParallel, tRetryAmount, tpc, tQueue, tAccount, tRuns, failedAccounts,
                   tFlaggedAfterFirst, tRerunFlagged, mobileRetryAttempts, instanceAttempts, mState,
                   mReinvocations, mCompleteSeen, mRerunAfterComplete, mStartAttempts>>
    /\ UNCHANGED nonBotVars

\* One invocation of Mobile(account): it returns, throws, or closes its
\* browser and re-invokes itself.  Without config.parallel it is called after
\* Desktop has returned.
MobileRun ==
    /\ tAccount # 0
    /\ mState \in {"todo", "running"}
    /\ tParallel \/ dState = "returned"
    /\ \E path \in MobilePaths, points \in SearchPoints :
          LET searched == path \in {"searched", "finalThrows"}
              counter == IF searched THEN AfterSearch(Counter, points) ELSE Counter
              decision == IF searched THEN RetryDecision(counter, tRetryAmount) ELSE "finish"
              complete == searched /\ points = "complete"
          IN /\ PathAllowed(path, doLater[tAccount])
             /\ (~searched) => points = "missing"
             /\ (path = "finalThrows") => decision # "retry"
             /\ (decision = "retry") => mReinvocations < MaxMobileRuns
             /\ doLater' = IF path = "loginFailed" THEN [doLater EXCEPT ![tAccount] = TRUE] ELSE doLater
             /\ mobileRetryAttempts' = IF tParallel THEN mobileRetryAttempts ELSE counter
             /\ instanceAttempts' = IF tParallel THEN counter ELSE instanceAttempts
             /\ mCompleteSeen' = (mCompleteSeen \/ complete)
             /\ tLeak' = (tLeak \/ (CreatesBrowser(path) /\ ~ClosesBrowser(path)))
             /\ IF decision = "retry"
                THEN /\ mState' = "running"
                     /\ mReinvocations' = mReinvocations + 1
                     /\ mRerunAfterComplete' = (mRerunAfterComplete \/ mCompleteSeen')
                ELSE /\ mState' = IF Throws(path) THEN "threw" ELSE "returned"
                     /\ UNCHANGED <<mReinvocations, mRerunAfterComplete>>
    /\ UNCHANGED <<tParallel, tRetryAmount, tpc, tQueue, tAccount, tRuns, failedAccounts,
                   tFlaggedAfterFirst, tRerunFlagged, dState, mStartAttempts>>
    /\ UNCHANGED nonBotVars

\* The try block of the loop body is over: both methods are done, or Desktop
\* threw and Mobile is not called; the catch clause logs
AccountEnd ==
    /\ tAccount # 0
    /\ IF tParallel
       THEN dState # "todo" /\ mState \in {"returned", "threw"}
       ELSE dState = "threw" \/ mState \in {"returned", "threw"}
    /\ tAccount' = 0
    /\ UNCHANGED <<tParallel, tRetryAmount, tpc, tQueue, doLater, tRuns, failedAccounts,
                   tFlaggedAfterFirst, tRerunFlagged, mobileRetryAttempts, instanceAttempts, dState,
                   mState, mReinvocations, mCompleteSeen, mRerunAfterComplete, mStartAttempts, tLeak>>
    /\ UNCHANGED nonBotVars

InitBot ==
    /\ ClickIdle
    /\ TabsIdle
    /\ dom = [e \in Elements |-> [tagged |-> FALSE, display |-> "", sheet |-> "block"]]
    /\ data = EmptyData
    /\ DispIdle
    /\ OverlayIdle
    /\ QuizIdle
    /\ ABCIdle
    /\ QueryIdle
    /\ QuizClickIdle
    /\ WatchIdle
    /\ GoHomeIdle
    /\ AppIdle
    /\ CheckInIdle
    /\ ExitIdle
    /\ tParallel \in BOOLEAN
    /\ tRetryAmount \in 0..MaxRetryAmount
    /\ tpc = "first"
    /\ tQueue = AccountList
    /\ tAccount = 0
    /\ doLater = [a \in Accounts |-> FALSE]
    /\ tRuns = [a \in Accounts |-> 0]
    /\ failedAccounts = <<>>
    /\ tFlaggedAfterFirst = {}
    /\ tRerunFlagged = FALSE
    /\ mobileRetryAttempts = 0
    /\ instanceAttempts = 0
    /\ dState = "todo"
    /\ mState = "todo"
    /\ mReinvocations = 0
    /\ mCompleteSeen = FALSE
    /\ mRerunAfterComplete = FALSE
    /\ mStartAttempts = 0
    /\ tLeak = FALSE

NextBot ==
    \/ RunTasksFirst
    \/ RunTasksRetry
    \/ DesktopRun
    \/ MobileRun
    \/ AccountEnd

SpecBot == InitBot /\ [][NextBot]_vars

\* C32 (as claimed): Mobile re-invokes itself at most retryMobileSearchAmount
\* times for one account, and never after a run of that account found the
\* mobile searches complete.
C32_MobileRetriesBounded ==
    /\ mReinvocations <= tRetryAmount
    /\ ~mRerunAfterComplete

\* C33 (as claimed): every account enters Mobile with the retry counter at
\* its initial value, whatever the accounts before it used.
C33_RetryBudgetPerAccount ==
    (tAccount # 0) => mStartAttempts = 0

\* C34: runTasks runs no account more than twice; in the retry pass and after
\* it, an account that was not flagged when the first pass ended has been run
\* once; when runTasks is done, an account that was flagged then has been run
\* twice; and every re-run starts with the flag cleared.
C34_SingleRetryPass ==
    /\ \A a \in Accounts : tRuns[a] <= 2
    /\ ~tRerunFlagged
    /\ (tpc \in {"retry", "done"}) =>
          \A a \in Accounts \ tFlaggedAfterFirst : tRuns[a] = 1
    /\ (tpc = "done") =>
          \A a \in tFlaggedAfterFirst : tRuns[a] = 2

\* runTasks is done, one account was re-run and failed again, another was
\* run once
C34_Witness ==
    /\ tpc = "done"
    /\ \E a \in Accounts, b \in Accounts :
          /\ tRuns[a] = 2
          /\ doLater[a]
          /\ tRuns[b] = 1

\* C39 (as claimed): Desktop and Mobile are never left, by return or by
\* exception, with a browser they created still open.
C39_BrowserClosedOnEveryPath == ~tLeak


(***************************************************************************)
(* DailyCheckIn.doDailyCheckIn: the retry loop of the claim request.       *)
(***************************************************************************)

DEFAULT_RETRIES == 3

\* config.dailyCheckInRetries ?? DEFAULT_RETRIES
MaxRetries(configured) == IF configured.set THEN configured.v ELSE DEFAULT_RETRIES

RetrySettings ==
    {[set |-> FALSE, v |-> 0]} \cup {[set |-> TRUE, v |-> n] : n \in 0 .. MaxCheckInRetries}

\* respData?.response?.activity?.p as the response can carry it
ResponsePoints ==
    {[t |-> "undefined", v |-> 0], [t |-> "null", v |-> 0], [t |-> "text", v |-> 0],
     [t |-> "number", v |-> 0], [t |-> "number", v |-> 10],
     [t |-> "numeric-string", v |-> 10], [t |-> "prefixed-string", v |-> 10]}

\* Number.isFinite(Number(p)) ? Number(p) : (parseInt(p) || 0)
ClaimedPoint(p) ==
    CASE p.t \in {"number", "numeric-string"} -> p.v
      [] p.t = "prefixed-string" -> p.v
      [] OTHER -> 0

\* the catch block of one attempt waits only when another attempt follows
WaitAfterFailure_Always(n, maxRetries) == TRUE

WaitAfterFailure(n, maxRetries) == n < maxRetries

\* number of requests among the first n events of a trace
RECURSIVE RequestsUpTo(_, _)
RequestsUpTo(trace, n) ==
    IF n = 0 THEN 0
    ELSE RequestsUpTo(trace, n - 1) + (IF trace[n] \in {"ok", "fail"} THEN 1 ELSE 0)

\* the humanized wait before the first attempt; a rejection goes to the outer catch
CheckInInitialWait ==
    /\ cipc = "start"
    /\ \E rejects \in BOOLEAN : cipc' = IF rejects THEN "catch" ELSE "loop"
    /\ UNCHANGED <<ciRetries, ciAttempt, ciClaimed, ciTrace>>
    /\ UNCHANGED nonCiVars

\* one pass of while (attempt < maxRetries) up to the response or the rejection
CheckInRequest ==
    /\ cipc = "loop"
    /\ ciAttempt < MaxRetries(ciRetries)
    /\ ciAttempt' = ciAttempt + 1
    /\ \/ \E p \in ResponsePoints :
             /\ ciClaimed' = ClaimedPoint(p)
             /\ ciTrace' = Append(ciTrace, "ok")
             /\ cipc' = "done"
       \/ /\ ciTrace' = Append(ciTrace, "fail")
          /\ cipc' = "failed"
          /\ UNCHANGED ciClaimed
    /\ UNCHANGED ciRetries
    /\ UNCHANGED nonCiVars

\* the catch block of the attempt: log, then the backoff wait when one is due
CheckInBackoff ==
    /\ cipc = "failed"
    /\ IF WaitAfterFailure(ciAttempt, MaxRetries(ciRetries))
       THEN /\ ciTrace' = Append(ciTrace, "wait")
            /\ \E rejects \in BOOLEAN : cipc' = IF rejects THEN "catch" ELSE "loop"
       ELSE /\ cipc' = "loop"
            /\ UNCHANGED ciTrace
    /\ UNCHANGED <<ciRetries, ciAttempt, ciClaimed>>
    /\ UNCHANGED nonCiVars

\* the loop condition fails: "Failed to claim after N attempts" is logged
CheckInExhausted ==
    /\ cipc = "loop"
    /\ ~(ciAttempt < MaxRetries(ciRetries))
    /\ cipc' = "done"
    /\ UNCHANGED <<ciRetries, ciAttempt, ciClaimed, ciTrace>>
    /\ UNCHANGED nonCiVars

\* the outer catch logs and the method returns
CheckInCatch ==
    /\ cipc = "catch"
    /\ cipc' = "done"
    /\ UNCHANGED <<ciRetries, ciAttempt, ciClaimed, ciTrace>>
    /\ UNCHANGED nonCiVars

InitCheckIn ==
    /\ ClickIdle
    /\ TabsIdle
    /\ dom = [e \in Elements |-> [tagged |-> FALSE, display |-> "", sheet |-> "block"]]
    /\ data = EmptyData
    /\ DispIdle
    /\ OverlayIdle
    /\ QuizIdle
    /\ ABCIdle
    /\ QueryIdle
    /\ QuizClickIdle
    /\ WatchIdle
    /\ GoHomeIdle
    /\ AppIdle
    /\ ExitIdle
    /\ BotIdle
    /\ ciRetries \in RetrySettings
    /\ cipc = "start"
    /\ ciAttempt = 0
    /\ ciClaimed = 0
    /\ ciTrace = <<>>

NextCheckIn ==
    \/ CheckInInitialWait
    \/ CheckInRequest
    \/ CheckInBackoff
    \/ CheckInExhausted
    \/ CheckInCatch

SpecCheckIn == InitCheckIn /\ [][NextCheckIn]_vars

\* C35: doDailyCheckIn issues at most maxRetries claim requests (3 when the
\* setting is absent), issues no request after the first one that returned
\* without error, waits after a failed attempt exactly when another attempt
\* follows (never after the last one), and never throws to its caller.
C35_CheckInRetryContract ==
    /\ RequestsUpTo(ciTrace, Len(ciTrace)) <= MaxRetries(ciRetries)
    /\ (~ciRetries.set) => RequestsUpTo(ciTrace, Len(ciTrace)) <= 3
    /\ \A i \in 1 .. Len(ciTrace) : (ciTrace[i] = "ok") => i = Len(ciTrace)
    /\ \A i \in 1 .. Len(ciTrace) :
          (ciTrace[i] = "wait") =>
              /\ i > 1
              /\ ciTrace[i - 1] = "fail"
              /\ RequestsUpTo(ciTrace, i) < MaxRetries(ciRetries)
    /\ (cipc = "done") =>
          \A i \in 1 .. Len(ciTrace) :
              (ciTrace[i] = "fail" /\ RequestsUpTo(ciTrace, i) < MaxRetries(ciRetries)) =>
                  (i < Len(ciTrace) /\ ciTrace[i + 1] = "wait")
    /\ cipc # "thrown"

\* every one of the default three attempts failed, with a wait between them
C35_Witness ==
    /\ cipc = "done"
    /\ ~ciRetries.set
    /\ ciTrace = <<"fail", "wait", "fail", "wait", "fail">>


(***************************************************************************)
(* BrowserFunc.getAppEarnablePoints                                        *)
(***************************************************************************)

EligibleOffers == {"ENUS_readarticle3_30points", "Gamification_Sapphire_DailyCheckIn"}

\* an attribute of an offer: a string of digits, or absent
Attr(n) == [present |-> TRUE, v |-> n]

Absent == [present |-> FALSE, v |-> 0]

\* parseInt(attribute ?? ''): NaN for the empty string
ParseInt(a) == IF a.present THEN Num(a.v) ELSE NaN

Minus(x, y) == IF x.nan \/ y.nan THEN NaN ELSE Num(x.v - y.v)

Plus(x, y) == IF x.nan \/ y.nan THEN NaN ELSE Num(x.v + y.v)

\* the offers a response can list; dayPoints stands for the day_N_points
\* attribute of the day that is asked for
ReadOffers ==
    {[offerid |-> "ENUS_readarticle3_30points", type |-> "msnreadearn",
      pointmax |-> pm, pointprogress |-> Attr(10),
      progress |-> 0, updatedToday |-> FALSE, dayPoints |-> Absent] : pm \in {Attr(30), Absent}}

CheckInOffers ==
    {[offerid |-> "Gamification_Sapphire_DailyCheckIn", type |-> "checkin",
      pointmax |-> Absent, pointprogress |-> Absent,
      progress |-> pr, updatedToday |-> today, dayPoints |-> Attr(5)] :
        pr \in {2, 6}, today \in BOOLEAN}

OtherOffers ==
    {[offerid |-> id, type |-> "urlreward",
      pointmax |-> Attr(10), pointprogress |-> Attr(0),
      progress |-> 0, updatedToday |-> FALSE, dayPoints |-> Absent] :
        id \in {"ENUS_readarticle3_30points", "Other_Offer"}}

OfferPool == ReadOffers \cup CheckInOffers \cup OtherOffers

PromotionLists == UNION {[1 .. n -> OfferPool] : n \in 0 .. MaxOffers}

\* the rejections of axios.request
RequestErrors ==
    {[msg |-> "unable to verify the first certificate", code |-> "UNABLE_TO_VERIFY_LEAF_SIGNATURE", cert |-> TRUE],
     [msg |-> "self signed certificate", code |-> "DEPTH_ZERO_SELF_SIGNED_CERT", cert |-> TRUE],
     [msg |-> "unable to get local issuer certificate", code |-> "UNABLE_TO_GET_ISSUER_CERT_LOCALLY", cert |-> TRUE],
     [msg |-> "hostname does not match certificate's altnames", code |-> "ERR_TLS_CERT_ALTNAME_INVALID", cert |-> TRUE],
     [msg |-> "certificate has expired", code |-> "CERT_HAS_EXPIRED", cert |-> TRUE],
     [msg |-> "timeout of 15000ms exceeded", code |-> "ECONNABORTED", cert |-> FALSE],
     [msg |-> "socket hang up", code |-> "ECONNRESET", cert |-> FALSE]}

IsCertError_Any(err) == TRUE

IsCertError(err) ==
    \/ err.msg \in {"unable to verify the first certificate", "self signed certificate",
                    "unable to get local issuer certificate"}
    \/ err.code \in {"DEPTH_ZERO_SELF_SIGNED_CERT", "UNABLE_TO_VERIFY_LEAF_SIGNATURE",
                     "ERR_TLS_CERT_ALTNAME_INVALID"}

\* the shapes of a fulfilled request: with response.promotions, without
\* response, with a response that has no promotions array
ResponseShapes == {"promotions", "noResponse", "noPromotions"}

\* promotions.filter(x => eligibleOffers.includes(x.attributes.offerid ?? ''))
EligibleActivities(promotions) == SelectSeq(promotions, LAMBDA x : x.offerid \in EligibleOffers)

ReadToEarnOf(item) == Minus(ParseInt(item.pointmax), ParseInt(item.pointprogress))

\* checkInDay = progress % 7; the points of the next day unless claimed today
CheckInOf(item) ==
    IF (item.progress % 7) < 6 /\ ~item.updatedToday THEN ParseInt(item.dayPoints) ELSE Num(0)

\* for (const item of eligibleActivities): both branches end with break
RECURSIVE CountFrom(_, _, _)
CountFrom(items, i, points) ==
    IF i > Len(items) THEN points
    ELSE IF items[i].type = "msnreadearn"
         THEN [points EXCEPT !.readToEarn = ReadToEarnOf(items[i])]
    ELSE IF items[i].type = "checkin"
         THEN [points EXCEPT !.checkIn = CheckInOf(items[i])]
    ELSE CountFrom(items, i + 1, points)

EarnablePoints(promotions) ==
    LET points == CountFrom(EligibleActivities(promotions), 1, InitialPoints)
    IN  [points EXCEPT !.totalEarnablePoints = Plus(points.readToEarn, points.checkIn),
                       !.fetchError = FALSE]

\* { ...points, fetchError: true } with the initial points
FetchError == [InitialPoints EXCEPT !.fetchError = TRUE]

\* quietDelay and getDashboardData, the locale: a rejection goes to the outer catch
AppDashboard ==
    /\ apc = "start"
    /\ \E rejects \in BOOLEAN :
          /\ apc' = IF rejects THEN "catch" ELSE "request"
          /\ aFailed' = rejects
    /\ UNCHANGED <<aPromotions, aRequests, aFirstError, aRelaxed, aResult>>
    /\ UNCHANGED nonAppVars

\* what a fulfilled request leaves behind
AppReceive(shape, promotions) ==
    /\ aPromotions' = IF shape = "promotions" THEN promotions ELSE <<>>
    /\ apc' = CASE shape = "promotions" -> "count"
                [] shape = "noResponse" -> "done"
                [] shape = "noPromotions" -> "catch"
    /\ aFailed' = (shape # "promotions")
    /\ aResult' = IF shape = "noResponse" THEN FetchError ELSE aResult

\* the regular request and its catch
AppRequest ==
    /\ apc = "request"
    /\ aRequests' = aRequests + 1
    /\ \/ /\ \E shape \in ResponseShapes, promotions \in PromotionLists :
                AppReceive(shape, promotions)
          /\ UNCHANGED aFirstError
       \/ \E err \in RequestErrors :
             /\ aFirstError' = err
             /\ aFailed' = TRUE
             /\ IF IsCertError(err)
                THEN apc' = "retry" /\ UNCHANGED aResult
                ELSE apc' = "done" /\ aResult' = FetchError
             /\ UNCHANGED aPromotions
    /\ UNCHANGED aRelaxed
    /\ UNCHANGED nonAppVars

\* the retry with httpsAgent: new https.Agent({ rejectUnauthorized: false })
AppRetry ==
    /\ apc = "retry"
    /\ aRequests' = aRequests + 1
    /\ aRelaxed' = TRUE
    /\ \/ \E shape \in ResponseShapes, promotions \in PromotionLists :
             AppReceive(shape, promotions)
       \/ /\ apc' = "done"
          /\ aResult' = FetchError
          /\ aFailed' = TRUE
          /\ UNCHANGED aPromotions
    /\ UNCHANGED aFirstError
    /\ UNCHANGED nonAppVars

\* filter, loop, sum, return { ...points, fetchError: false }
AppCount ==
    /\ apc = "count"
    /\ aResult' = EarnablePoints(aPromotions)
    /\ apc' = "done"
    /\ UNCHANGED <<aPromotions, aRequests, aFirstError, aRelaxed, aFailed>>
    /\ UNCHANGED nonAppVars

\* the outer catch
AppCatch ==
    /\ apc = "catch"
    /\ aResult' = [readToEarn |-> Num(0), checkIn |-> Num(0), totalEarnablePoints |-> Num(0),
                   fetchError |-> TRUE]
    /\ apc' = "done"
    /\ UNCHANGED <<aPromotions, aRequests, aFirstError, aRelaxed, aFailed>>
    /\ UNCHANGED nonAppVars

InitApp ==
    /\ ClickIdle
    /\ TabsIdle
    /\ dom = [e \in Elements |-> [tagged |-> FALSE, display |-> "", sheet |-> "block"]]
    /\ data = EmptyData
    /\ DispIdle
    /\ OverlayIdle
    /\ QuizIdle
    /\ ABCIdle
    /\ QueryIdle
    /\ QuizClickIdle
    /\ WatchIdle
    /\ GoHomeIdle
    /\ ExitIdle
    /\ BotIdle
    /\ CheckInIdle
    /\ apc = "start"
    /\ aPromotions = <<>>
    /\ aRequests = 0
    /\ aFirstError = NoError
    /\ aRelaxed = FALSE
    /\ aFailed = FALSE
    /\ aResult = InitialPoints

NextApp ==
    \/ AppDashboard
    \/ AppRequest
    \/ AppRetry
    \/ AppCount
    \/ AppCatch

SpecApp == InitApp /\ [][NextApp]_vars

BothOffers(promotions) ==
    /\ Len(promotions) = 2
    /\ \E i \in 1 .. 2 : promotions[i] \in ReadOffers
    /\ \E i \in 1 .. 2 : promotions[i] \in CheckInOffers

OfferOfType(promotions, type) ==
    promotions[CHOOSE i \in 1 .. Len(promotions) : promotions[i].type = type]

\* C37: when the promotions hold both eligible offers, readToEarn is computed
\* from the read-to-earn offer, checkIn from the check-in offer, and
\* totalEarnablePoints is their sum, in either order of the two offers.
C37_BothOffersCounted ==
    (apc = "done" /\ ~aFailed /\ BothOffers(aPromotions)) =>
        /\ aResult.readToEarn = ReadToEarnOf(OfferOfType(aPromotions, "msnreadearn"))
        /\ aResult.checkIn = CheckInOf(OfferOfType(aPromotions, "checkin"))
        /\ aResult.totalEarnablePoints = Plus(aResult.readToEarn, aResult.checkIn)


(***************************************************************************)
(* BrowserFunc.goHome                                                      *)
(***************************************************************************)

\* const maxIterations = 5
GoHomeMaxIterations == 5

\* where a page can be: at config.baseURL, elsewhere on its host, on the
\* login host, on another site, on a blank page
Locations == {"dashboardURL", "dashboardOther", "login", "elsewhere", "blank"}

\* new URL(page.url()).hostname
Hostname(location) ==
    CASE location \in {"dashboardURL", "dashboardOther"} -> "rewards"
      [] location = "login" -> "login"
      [] location = "elsewhere" -> "elsewhere"
      [] OTHER -> ""

DashboardHostname == Hostname("dashboardURL")

\* where page.goto(baseURL) can leave the page: on the dashboard, or
\* redirected to the login host or to another site
AfterGoto == {"dashboardURL", "dashboardOther", "login", "elsewhere"}

\* the hostname test of an iteration: TRUE when the page must be navigated again
Renavigate(location) == Hostname(location) # DashboardHostname

\* page.url() === dashboardURL.href returns at once; otherwise goto and quietDelay
GoHomeStart ==
    /\ gpc = "start"
    /\ IF gLocation = "dashboardURL"
       THEN /\ gpc' = "returned"
            /\ UNCHANGED <<gLocation, gIteration>>
       ELSE \/ /\ gpc' = "thrown"
               /\ UNCHANGED <<gLocation, gIteration>>
            \/ /\ gLocation' \in AfterGoto
               /\ gIteration' = 1
               /\ gpc' = "loop"
    /\ UNCHANGED <<gChecks, gSuspended>>
    /\ UNCHANGED nonGoVars

\* one iteration of the loop: wait, dismiss messages, the suspended test,
\* the #more-activities test, the hostname test
GoHomeIteration ==
    /\ gpc = "loop"
    /\ gIteration <= GoHomeMaxIterations
    /\ gChecks' = Append(gChecks, gLocation)
    /\ \/ \* a wait, tryDismissAllMessages or a navigation rejects
          /\ gpc' = "thrown"
          /\ UNCHANGED <<gLocation, gIteration, gSuspended>>
       \/ \* #suspendedAccountHeader is visible
          /\ Hostname(gLocation) = DashboardHostname
          /\ gSuspended' = TRUE
          /\ gpc' = "thrown"
          /\ UNCHANGED <<gLocation, gIteration>>
       \/ \* #more-activities is found
          /\ Hostname(gLocation) = DashboardHostname
          /\ gpc' = "returned"
          /\ UNCHANGED <<gLocation, gIteration, gSuspended>>
       \/ \* #more-activities is not found within the timeout
          /\ IF Renavigate(gLocation)
             THEN /\ gLocation' \in AfterGoto
                  /\ gIteration' = gIteration + 1
                  /\ gpc' = "loop"
             ELSE /\ gpc' = "returned"
                  /\ UNCHANGED <<gLocation, gIteration>>
          /\ UNCHANGED gSuspended
    /\ UNCHANGED nonGoVars

\* iteration <= maxIterations fails: the loop ends and the method returns
GoHomeExhausted ==
    /\ gpc = "loop"
    /\ gIteration > GoHomeMaxIterations
    /\ gpc' = "returned"
    /\ UNCHANGED <<gLocation, gIteration, gChecks, gSuspended>>
    /\ UNCHANGED nonGoVars

InitGoHome ==
    /\ ClickIdle
    /\ TabsIdle
    /\ dom = [e \in Elements |-> [tagged |-> FALSE, display |-> "", sheet |-> "block"]]
    /\ data = EmptyData
    /\ DispIdle
    /\ OverlayIdle
    /\ QuizIdle
    /\ ABCIdle
    /\ QueryIdle
    /\ QuizClickIdle
    /\ WatchIdle
    /\ ExitIdle
    /\ BotIdle
    /\ CheckInIdle
    /\ AppIdle
    /\ gpc = "start"
    /\ gLocation \in Locations
    /\ gIteration = 0
    /\ gChecks = <<>>
    /\ gSuspended = FALSE

NextGoHome ==
    \/ GoHomeStart
    \/ GoHomeIteration
    \/ GoHomeExhausted

SpecGoHome == InitGoHome /\ [][NextGoHome]_vars

\* C38: whenever goHome returns normally the page is on the dashboard host;
\* goHome throws when the suspended header was seen; it runs at most 5
\* check iterations.
C38_ReturnsOnDashboardHost ==
    /\ (gpc = "returned") => Hostname(gLocation) = DashboardHostname
    /\ gSuspended => gpc = "thrown"
    /\ Len(gChecks) <= 5

====
